---------------------------- MODULE Spec2Model ----------------------------
(***************************************************************************)
(* Optimistic state sync of the dental-management dashboard: the local     *)
(* React state of Dashboard (departments, appointments), the handlers of   *)
(* DepartmentCard, Dashboard and AppointmentsTable that mutate it, the     *)
(* remote calls they issue and the continuations that run when a call      *)
(* settles.                                                                *)
(***************************************************************************)
EXTENDS Naturals, Integers, Sequences, FiniteSets, TLC

VARIABLES
    loading,        \* Dashboard.loading: loadAll has not finished
    departments,    \* Dashboard.departments
    appointments,   \* Dashboard.appointments
    modal,          \* the dialog of a DepartmentCard that is open, with what it captured
    calls,          \* remote calls issued and not yet settled
    ops,            \* one record per started handler invocation: what it captured, what it notified
    now,            \* Date.now(), read by every id the handlers make
    remotePatients, \* table patients of the persistence service
    remoteAppts,    \* table appointments of the persistence service
    remotePhotos,   \* table patient_photos of the persistence service
    storage,        \* the blobs in bucket patient-photos
    codec,          \* a weekly-slot cell value on its way through the codec of types.ts
    planner,        \* WeeklyPlanning: its slots, its edit dialog and its pending call
    celebration,    \* the completion effect of one DepartmentCard
    photoModal,     \* PhotoModal: its own state and what it handed to its callbacks
    patientTable,   \* PatientTable: a drag over its rows and what the drop handed on
    home            \* Home: the day session, the login form and the password settings

\* the Dashboard and the persistence service
dash == << loading, departments, appointments, modal, calls, ops, now,
           remotePatients, remoteAppts, remotePhotos, storage >>

\* the components modelled on their own
aside == << codec, planner, celebration, photoModal, patientTable, home >>

vars == << dash, aside >>

---------------------------------------------------------------------------
(* Bounds of the model *)

\* handler invocations (user mutations) started in one run
MaxOps == 2

\* remote calls that reject in one run
MaxFailures == 2

---------------------------------------------------------------------------
(* src/lib/types.ts *)

STATUS_OPTIONS ==
    << "Belum Dikerjakan", "Identifikasi Pasien", "Diskusi DPJP",
       "Tindakan", "Kontrol Pasca Tindakan", "Selesai" >>

\* SQL NULL / JavaScript null and undefined in a text column or an optional argument
Null == "<null>"

\* PatientEntry
Entry(id, nama, telp) == [id |-> id, namaPasien |-> nama, nomorTelp |-> telp]

\* `first?.namaPasien ?? ""` of a list
FirstNama(list) == IF Len(list) > 0 THEN list[1].namaPasien ELSE ""
FirstTelp(list) == IF Len(list) > 0 THEN list[1].nomorTelp ELSE ""

\* a mutation of syncLegacyFields that keeps the legacy name when the list empties
syncLegacyFieldsKeepName(p) ==
    [p EXCEPT !.hasPasien = Len(p.pasienList) > 0,
              !.namaPasien = IF Len(p.pasienList) > 0 THEN p.pasienList[1].namaPasien ELSE p.namaPasien,
              !.nomorTelp = FirstTelp(p.pasienList)]

syncLegacyFields(p) ==
    [p EXCEPT !.hasPasien = Len(p.pasienList) > 0,
              !.namaPasien = FirstNama(p.pasienList),
              !.nomorTelp = FirstTelp(p.pasienList)]

---------------------------------------------------------------------------
(* src/lib/types.ts: the weekly-slot codec.  A string is the sequence of   *)
(* its characters, a JSON value a record: type, the characters of a        *)
(* string, number or literal, and the members of an object or array.       *)

\* "ISTIRAHAT"
ISTIRAHAT == << "I", "S", "T", "I", "R", "A", "H", "A", "T" >>

JsonWhitespace == {" ", "\t", "\n", "\r"}

\* `val.trim() === ""`
IsBlank(val) == \A i \in DOMAIN val : val[i] \in JsonWhitespace

JVal(type, s, members) == [type |-> type, s |-> s, members |-> members]

\* a JSON string value, and `undefined`
JString(s) == JVal("string", s, << >>)
Undefined == JVal("undefined", << >>, << >>)

\* an object literal with these keys, in this order
JObject(members) == JVal("object", << >>, members)

\* JSON.stringify of a string: quoted, with `"`, `\` and the control
\* characters escaped
EscapeChar(c) ==
    CASE c = "\"" -> << "\\", "\"" >>
      [] c = "\\" -> << "\\", "\\" >>
      [] c = "\n" -> << "\\", "n" >>
      [] c = "\t" -> << "\\", "t" >>
      [] c = "\r" -> << "\\", "r" >>
      [] OTHER -> << c >>

\* a mutation of JSON.stringify: the characters of a string are written as they are
EscapeNothing(s) == s

RECURSIVE Escape(_)
Escape(s) == IF s = << >> THEN << >> ELSE EscapeChar(Head(s)) \o Escape(Tail(s))

Quote(s) == << "\"" >> \o Escape(s) \o << "\"" >>

\* serializeSlotData(data) = JSON.stringify(data) of { n, t, d, pid }
serializeSlotData(data) ==
    << "{" >> \o Quote(<< "n" >>) \o << ":" >> \o Quote(data.n)
    \o << "," >> \o Quote(<< "t" >>) \o << ":" >> \o Quote(data.t)
    \o << "," >> \o Quote(<< "d" >>) \o << ":" >> \o Quote(data.d)
    \o << "," >> \o Quote(<< "p", "i", "d" >>) \o << ":" >> \o Quote(data.pid)
    \o << "}" >>

\* what a parsing step gives: a value and the text after it, or a SyntaxError
ParseError == [ok |-> FALSE, val |-> Undefined, rest |-> << >>]
Parsed(val, rest) == [ok |-> TRUE, val |-> val, rest |-> rest]

RECURSIVE SkipWs(_)
SkipWs(s) == IF s # << >> /\ Head(s) \in JsonWhitespace THEN SkipWs(Tail(s)) ELSE s

StartsWith(s, prefix) == Len(s) >= Len(prefix) /\ SubSeq(s, 1, Len(prefix)) = prefix

Drop(s, n) == SubSeq(s, n + 1, Len(s))

Digit == {"0", "1", "2", "3", "4", "5", "6", "7", "8", "9"}
HexDigit == Digit \cup {"a", "b", "c", "d", "e", "f", "A", "B", "C", "D", "E", "F"}

\* the character a two-character escape of a JSON string stands for
Unescape(c) ==
    CASE c = "n" -> "\n"
      [] c = "t" -> "\t"
      [] c = "r" -> "\r"
      [] c = "f" -> "\f"
      [] c = "b" -> "\\b"
      [] OTHER -> c

\* the rest of a JSON string after its opening quote; acc: the characters read
RECURSIVE ScanString(_, _)
ScanString(s, acc) ==
    IF s = << >> THEN ParseError
    ELSE IF Head(s) = "\"" THEN Parsed(JString(acc), Tail(s))
    ELSE IF Head(s) = "\\"
         THEN IF Len(s) >= 2 /\ s[2] \in {"\"", "\\", "/", "b", "f", "n", "r", "t"}
              THEN ScanString(Drop(s, 2), Append(acc, Unescape(s[2])))
              ELSE IF Len(s) >= 6 /\ s[2] = "u" /\ \A i \in 3..6 : s[i] \in HexDigit
              THEN ScanString(Drop(s, 6), Append(acc, "\\u" \o s[3] \o s[4] \o s[5] \o s[6]))
              ELSE ParseError
    ELSE IF Head(s) \in {"\n", "\t", "\r", "\f"} THEN ParseError
    ELSE ScanString(Tail(s), Append(acc, Head(s)))

\* how many digits s starts with
RECURSIVE CountDigits(_)
CountDigits(s) == IF s # << >> /\ Head(s) \in Digit THEN 1 + CountDigits(Tail(s)) ELSE 0

\* a JSON number: -? (0 | [1-9][0-9]*) (. [0-9]+)? ([eE] [+-]? [0-9]+)?
ParseNumber(s) ==
    LET a == IF s # << >> /\ Head(s) = "-" THEN Tail(s) ELSE s
        int == IF a # << >> /\ Head(a) = "0" THEN 1 ELSE CountDigits(a)
        b == Drop(a, int)
        hasFrac == b # << >> /\ Head(b) = "."
        frac == IF hasFrac THEN CountDigits(Tail(b)) ELSE 0
        c == IF hasFrac THEN Drop(b, 1 + frac) ELSE b
        hasExp == c # << >> /\ Head(c) \in {"e", "E"}
        d == IF hasExp /\ Len(c) >= 2 /\ c[2] \in {"+", "-"} THEN Drop(c, 2)
             ELSE IF hasExp THEN Tail(c) ELSE c
        exp == IF hasExp THEN CountDigits(d) ELSE 0
        rest == IF hasExp THEN Drop(d, exp) ELSE c
    IN IF int = 0 \/ (hasFrac /\ frac = 0) \/ (hasExp /\ exp = 0) THEN ParseError
       ELSE Parsed(JVal("number", SubSeq(s, 1, Len(s) - Len(rest)), << >>), rest)

JsonLiterals == { << "t", "r", "u", "e" >>, << "f", "a", "l", "s", "e" >>, << "n", "u", "l", "l" >> }

\* a JSON value at the start of s (s has no leading whitespace), the members
\* of an object after `{` and the elements of an array after `[`
\* the member of a set of one; the steps of the parser are applied through
\* { Step(v) : v \in { ... } }, which computes the parsed value v once
Only(S) == CHOOSE v \in S : TRUE

RECURSIVE ParseValue(_), ParseMembers(_, _), ParseElements(_, _)
RECURSIVE AfterKey(_, _), AfterMember(_, _, _), NextMember(_, _)
RECURSIVE AfterElement(_, _), NextElement(_, _)

\* after `{` or `[` and whitespace: the empty object or array, or its content
OpenObject(a) ==
    IF a # << >> /\ Head(a) = "}" THEN Parsed(JObject(<< >>), Tail(a))
    ELSE ParseMembers(a, << >>)

OpenArray(a) ==
    IF a # << >> /\ Head(a) = "]" THEN Parsed(JVal("array", << >>, << >>), Tail(a))
    ELSE ParseElements(a, << >>)

\* true, false or null at the start of s
ParseLiteral(s, lit) == Parsed(JVal("literal", lit, << >>), Drop(s, Len(lit)))

ParseValue(s) ==
    IF s = << >> THEN ParseError
    ELSE IF Head(s) = "\"" THEN ScanString(Tail(s), << >>)
    ELSE IF Head(s) = "{" THEN OpenObject(SkipWs(Tail(s)))
    ELSE IF Head(s) = "[" THEN OpenArray(SkipWs(Tail(s)))
    ELSE IF Head(s) \in Digit \cup {"-"} THEN ParseNumber(s)
    ELSE IF \E lit \in JsonLiterals : StartsWith(s, lit)
         THEN ParseLiteral(s, CHOOSE l \in JsonLiterals : StartsWith(s, l))
    ELSE ParseError

\* a member: its key k, then (a: the text after the key) `:` and its value v
ParseMembers(s, acc) ==
    IF s = << >> \/ Head(s) # "\"" THEN ParseError
    ELSE Only({ AfterKey(k, acc) : k \in { ScanString(Tail(s), << >>) } })

AfterKey(k, acc) ==
    IF ~k.ok \/ SkipWs(k.rest) = << >> \/ Head(SkipWs(k.rest)) # ":" THEN ParseError
    ELSE Only({ AfterMember(k, v, acc) : v \in { ParseValue(SkipWs(Tail(SkipWs(k.rest)))) } })

AfterMember(k, v, acc) ==
    IF ~v.ok THEN ParseError
    ELSE NextMember(SkipWs(v.rest), Append(acc, << k.val.s, v.val >>))

NextMember(b, members) ==
    IF b = << >> THEN ParseError
    ELSE IF Head(b) = "," THEN ParseMembers(SkipWs(Tail(b)), members)
    ELSE IF Head(b) = "}" THEN Parsed(JObject(members), Tail(b))
    ELSE ParseError

ParseElements(s, acc) == Only({ AfterElement(v, acc) : v \in { ParseValue(s) } })

AfterElement(v, acc) ==
    IF ~v.ok THEN ParseError
    ELSE NextElement(SkipWs(v.rest), Append(acc, << << >>, v.val >>))

NextElement(b, elements) ==
    IF b = << >> THEN ParseError
    ELSE IF Head(b) = "," THEN ParseElements(SkipWs(Tail(b)), elements)
    ELSE IF Head(b) = "]" THEN Parsed(JVal("array", << >>, elements), Tail(b))
    ELSE ParseError

\* the whole text must be one value
WholeText(r) == IF r.ok /\ SkipWs(r.rest) = << >> THEN r ELSE ParseError

\* JSON.parse(text): the value, or ok = FALSE where it throws
JsonParse(text) == Only({ WholeText(r) : r \in { ParseValue(SkipWs(text)) } })

\* `key in parsed` for a parsed object
HasKey(val, key) ==
    val.type = "object" /\ \E i \in DOMAIN val.members : val.members[i][1] = key

\* `obj[key]`: the last member of that key, or undefined
Get(val, key) ==
    IF HasKey(val, key)
    THEN LET last == CHOOSE i \in DOMAIN val.members :
                        /\ val.members[i][1] = key
                        /\ \A j \in DOMAIN val.members : val.members[j][1] = key => j <= i
         IN val.members[last][2]
    ELSE Undefined

\* the text before the first separator and the text after it, or the text alone
FirstCut(val, sep) ==
    IF \E i \in 1..(Len(val) - Len(sep) + 1) : SubSeq(val, i, i + Len(sep) - 1) = sep
    THEN LET i == CHOOSE k \in 1..(Len(val) - Len(sep) + 1) :
                     /\ SubSeq(val, k, k + Len(sep) - 1) = sep
                     /\ \A j \in 1..(k - 1) : SubSeq(val, j, j + Len(sep) - 1) # sep
         IN << SubSeq(val, 1, i - 1), Drop(val, i + Len(sep) - 1) >>
    ELSE << val >>

\* a mutation of val.split(" - "): the text is cut at the first separator only
SplitAtFirst(val, sep) == FirstCut(val, sep)

\* val.split(sep), for a separator that is not empty
RECURSIVE Split(_, _)
Split(val, sep) ==
    LET cut == FirstCut(val, sep)
    IN IF Len(cut) = 1 THEN cut ELSE << cut[1] >> \o Split(cut[2], sep)

\* what parseSlotValue returns: "", "ISTIRAHAT" or a WeeklySlotData object
SlotEmpty == [kind |-> "empty", data |-> Undefined]
SlotBreak == [kind |-> "break", data |-> Undefined]
SlotData(obj) == [kind |-> "data", data |-> obj]

\* `x || y` for strings
OrElse(x, y) == IF x = << >> THEN y ELSE x

\* the catch block of parseSlotValue: parts = val.split(" - ")
LegacySlot(val, parts) ==
    SlotData(JObject(<<
        << << "n" >>, JString(OrElse(parts[1], val)) >>,
        << << "t" >>, JString(<< >>) >>,
        << << "d" >>, JString(IF Len(parts) >= 2 THEN parts[2] ELSE << >>) >>,
        << << "p", "i", "d" >>, JString(<< >>) >> >>))

\* the try block of parseSlotValue: parsed = JSON.parse(val)
ParsedSlot(val, parsed) ==
    IF parsed.ok
    THEN IF parsed.val.type = "object" /\ HasKey(parsed.val, << "n" >>)
         THEN SlotData(parsed.val)
         ELSE SlotEmpty
    ELSE LegacySlot(val, Split(val, << " ", "-", " " >>))

parseSlotValue(val) ==
    IF val = << >> \/ IsBlank(val) THEN SlotEmpty
    ELSE IF val = ISTIRAHAT THEN SlotBreak
    ELSE ParsedSlot(val, JsonParse(val))

---------------------------------------------------------------------------
(* src/lib/supabase-queries.ts: rows and their conversions *)

\* The text of column pasien_list: SQL NULL, text JSON.parse rejects, or the
\* JSON text of an array of entries (JSON.stringify of a PatientEntry[]).
JsonNull == [kind |-> "null", items |-> << >>]
JsonInvalid == [kind |-> "invalid", items |-> << >>]
JsonStringify(list) == [kind |-> "array", items |-> list]

\* the row upsertPatient writes
PatientRow(patient, departmentId, subDepartmentId) ==
    LET synced == syncLegacyFields(patient) IN
    [ id |-> synced.id,
      department_id |-> departmentId,
      sub_department_id |-> subDepartmentId,
      requirement |-> synced.requirement,
      status |-> synced.status,
      has_pasien |-> synced.hasPasien,
      nama_pasien |-> synced.namaPasien,
      nomor_telp |-> synced.nomorTelp,
      pasien_list |-> JsonStringify(synced.pasienList) ]

\* `x as string ?? ""`
OrEmpty(x) == IF x = Null THEN "" ELSE x

\* fetchDepartments.toPatient
toPatient(row, photos) ==
    LET parsed == IF row.pasien_list.kind = "array" THEN row.pasien_list.items ELSE << >>
        pasienList ==
            IF Len(parsed) = 0 /\ row.has_pasien /\ row.nama_pasien \notin {Null, ""}
            THEN << Entry("pe-" \o row.id, row.nama_pasien, row.nomor_telp) >>
            ELSE parsed
    IN [ id |-> row.id,
         requirement |-> row.requirement,
         status |-> row.status,
         pasienList |-> pasienList,
         hasPasien |-> Len(pasienList) > 0,
         namaPasien |-> IF Len(pasienList) > 0 THEN pasienList[1].namaPasien
                        ELSE OrEmpty(row.nama_pasien),
         nomorTelp |-> IF Len(pasienList) > 0 THEN pasienList[1].nomorTelp
                       ELSE OrEmpty(row.nomor_telp),
         photos |-> photos ]

\* fetchDepartments, from the tables in sort_order
fetchDepartments(depts, subs, patients, photosByPatient) ==
    LET P(rows) == [i \in DOMAIN rows |-> toPatient(rows[i], photosByPatient[rows[i].id])]
        Sub(s) == [ id |-> s.id, name |-> s.name,
                    patients |-> P(SelectSeq(patients, LAMBDA p : p.sub_department_id = s.id)) ]
        Subs(rows) == [i \in DOMAIN rows |-> Sub(rows[i])]
        Dept(d) ==
            [ id |-> d.id, name |-> d.name,
              hasSubDepartments |-> d.has_sub_departments,
              patients |-> P(SelectSeq(patients,
                              LAMBDA p : p.department_id = d.id /\ p.sub_department_id = Null)),
              subDepartments |-> Subs(SelectSeq(subs, LAMBDA s : s.department_id = d.id)) ]
    IN [i \in DOMAIN depts |-> Dept(depts[i])]


---------------------------------------------------------------------------
(* The persistence service when the dashboard mounts *)

DeptRows ==
    << [id |-> "d1", name |-> "Konservasi", has_sub_departments |-> FALSE],
       [id |-> "d2", name |-> "Bedah Mulut", has_sub_departments |-> TRUE] >>

SubRows == << [id |-> "s1", department_id |-> "d2", name |-> "Minor"] >>

\* A row of table patients as upsertPatient leaves it
ModernRow(id, dept, sub, status, list) ==
    [ id |-> id, department_id |-> dept, sub_department_id |-> sub,
      requirement |-> "Scaling", status |-> status,
      has_pasien |-> Len(list) > 0, nama_pasien |-> FirstNama(list),
      nomor_telp |-> FirstTelp(list), pasien_list |-> JsonStringify(list) ]

\* A row written before column pasien_list existed: the single-patient fields only
LegacyRow(id, dept, sub, status, has, nama, telp) ==
    [ id |-> id, department_id |-> dept, sub_department_id |-> sub,
      requirement |-> "Scaling", status |-> status,
      has_pasien |-> has, nama_pasien |-> nama,
      nomor_telp |-> telp, pasien_list |-> JsonNull ]

\* Requirement p1 as a row the present upsertPatient wrote
P1Modern == ModernRow("p1", "d1", Null, "Tindakan", << Entry("pe-1", "Ani", "0811") >>)

\* The rows requirement p1 may be stored as
P1Rows ==
    { P1Modern,
      LegacyRow("p1", "d1", Null, "Tindakan", TRUE, "Ani", "0811"),
      LegacyRow("p1", "d1", Null, "Tindakan", FALSE, "Ani", "0811") }

PatientTables ==
    { << r1,
         ModernRow("p2", "d1", Null, "Belum Dikerjakan",
                   << Entry("pe-2", "Budi", "0822"), Entry("pe-3", "Cici", "") >>),
         ModernRow("p3", "d2", "s1", "Selesai", << >>) >> : r1 \in P1Rows }

\* patient_photos grouped by patient (photosByPatient[id] || [])
Photo(id, path) == [id |-> id, url |-> "https://storage/" \o path, storagePath |-> path]

PhotosByPatient ==
    [ id \in {"p1", "p2", "p3"} |->
        IF id = "p2" THEN << Photo("ph-1", "p2/1.jpg") >> ELSE << >> ]

\* the rows of patient_photos and the blobs behind PhotosByPatient
PhotoRow(photo, patientId) ==
    [id |-> photo.id, patient_id |-> patientId, storage_path |-> photo.storagePath]

PhotoRows == << PhotoRow(PhotosByPatient["p2"][1], "p2") >>

\* a blob of bucket patient-photos: uploadPhotoBase64 stores it at
\* `${patientId}/${Date.now()}.${ext}`, folder is the first segment of the path
Blob(path, patientId) == [path |-> path, folder |-> patientId]

\* storage.remove(paths)
RemoveBlobs(blobs, paths) == { b \in blobs : b.path \notin paths }

PhotoBlobs == { Blob(PhotoRows[i].storage_path, PhotoRows[i].patient_id) : i \in DOMAIN PhotoRows }

\* An appointment; formData stands for the eight form fields, which every
\* handler copies as one bundle
Appointment(id, formData, checklist) ==
    [id |-> id, formData |-> formData, checklist |-> checklist]

ApptRows == << Appointment("a1", "Ani 09:00", FALSE), Appointment("a2", "Budi 10:00", FALSE) >>

---------------------------------------------------------------------------
(* Bookkeeping of handler invocations and of the calls they issue *)

Local == << departments, appointments >>

\* dept, sub: the card and sub-department it was opened from; item: the
\* Patient or Appointment it captured; id: the id it is to delete
NoModal == [kind |-> "none", dept |-> Null, sub |-> Null, item |-> << >>, id |-> Null, mode |-> Null]

\* A handler invocation. S: local state when it started; N: local state right
\* after its optimistic apply; the counters are what it did so far.
NewOp(kind, entity) ==
    [ kind |-> kind, entity |-> entity, S |-> Local, N |-> Local,
      applied |-> FALSE,      \* the local apply has happened
      settledAtApply |-> 0,   \* its remote calls that had settled when it applied
      issued |-> 0,           \* remote calls issued
      failed |-> 0,           \* remote calls that rejected
      autoIssued |-> 0,       \* remote calls issued by a rejection's continuation
      okToasts |-> 0,         \* toast.success
      errToasts |-> 0,        \* toast.error
      silentErr |-> 0,        \* failures shown only inside a dialog, or not at all
      unhandled |-> 0,        \* rejections that left the handler
      input |-> << >>,        \* what the user handed to the handler
      caught |-> FALSE,       \* its catch block has run
      steps |-> << >>,        \* the steps of deletePatient it ran, each with its outcome
      writes |-> {},          \* its position writes that settled: << id, position, resolved >>
      seenAtCatch |-> {},     \* invocations that had applied when its catch block ran
      restored |-> << >>,     \* the local state its catch block left
      rolledBackTo |-> << >>  \* the local state the last rollback of any of its calls left
    ]

\* A pending remote call of invocation op. tag: "A" the upsertDepartment of
\* the optimistic onUpdate, "B" the handler's own call, "C" the
\* upsertDepartment of the rollback's onUpdate, "G" getNextSortOrder.
\* snap: the list the continuation restores; dept: the department the
\* handler closed over; arg: what is written.
\* arg.id: the id it names; arg.row: the entity it writes; arg.sub: the
\* sub-department; arg.upd: the department to apply once the call resolves.
Call(op, tag, idx, fn, snap, dept, arg) ==
    [op |-> op, tag |-> tag, idx |-> idx, fn |-> fn, snap |-> snap, dept |-> dept, arg |-> arg]

Arg(id, row, sub, upd) == [id |-> id, row |-> row, sub |-> sub, upd |-> upd]

Pending(o) == {c \in calls : c.op = o}

RECURSIVE Failures(_)
Failures(os) == IF os = << >> THEN 0 ELSE os[1].failed + Failures(Tail(os))

\* how a pending call may settle: resolved (TRUE) or rejected
Outcomes == {ok \in BOOLEAN : ok \/ Failures(ops) < MaxFailures}

CanStart == ~loading /\ Len(ops) < MaxOps

ThisOp == Len(ops) + 1

\* `rows.upsert(row)`: replace the row of that id, or add it
Upsert(table, row) ==
    IF \E i \in DOMAIN table : table[i].id = row.id
    THEN [i \in DOMAIN table |-> IF table[i].id = row.id THEN row ELSE table[i]]
    ELSE Append(table, row)

\* `rows.delete().eq("id", id)`
DeleteRow(table, id) == SelectSeq(table, LAMBDA r : r.id # id)

---------------------------------------------------------------------------
(* src/components/weekly-planning.tsx: WeeklyPlanning                      *)
(*                                                                         *)
(* `planner` holds the planner's props and state: slots (the prop the      *)
(* Dashboard keeps, replaced through onUpdate), the week viewed, the edit  *)
(* dialog and its fields, the upsertWeeklySlot call awaited by updateSlot  *)
(* and every slot that was passed to upsertWeeklySlot.                     *)

\* DAYS, the first two of the five
DAYS == {"senin", "selasa"}

\* DEFAULT_WEEKLY: the 11:00 row and the 12:00 break row, on the days of DAYS
DEFAULT_WEEKLY ==
    << [id |-> "w4", senin |-> << >>, selasa |-> << >>],
       [id |-> "w5", senin |-> ISTIRAHAT, selasa |-> ISTIRAHAT] >>

\* how far prev / next week navigation is followed
MaxWeekOffset == 1

\* how many upsertWeeklySlot calls the planner issues
MaxSlotWrites == 2

\* the departments prop: a department with direct requirements, one with a
\* patient and one without, and a department with a sub-department whose
\* requirement has no patient
PlannerPatient(id, has, nama, telp) ==
    [id |-> id, hasPasien |-> has, namaPasien |-> nama, nomorTelp |-> telp]

PlannerDepartments ==
    << [id |-> "d1", name |-> << "K" >>, hasSubDepartments |-> FALSE,
        patients |-> << PlannerPatient(<< "p", "1" >>, TRUE, << "B", "\"" >>, << "0" >>),
                        PlannerPatient(<< "p", "2" >>, FALSE, << >>, << >>) >>,
        subDepartments |-> << >>],
       [id |-> "d2", name |-> << "O" >>, hasSubDepartments |-> TRUE,
        patients |-> << >>,
        subDepartments |-> << [id |-> "s1", name |-> << "S" >>,
                               patients |-> << PlannerPatient(<< "p", "3" >>, FALSE, << >>, << >>) >>] >>] >>

\* what the user types into the name and phone fields, and the department
\* options of the manual form
NONE == << "_", "_", "n", "o", "n", "e", "_", "_" >>
ManualNames == { << " " >>, << " ", "A", "\"" >> }
ManualTelps == { << "0", " " >> }
ManualDepts == { NONE }

\* s.trim()
RECURSIVE TrimStart(_)
TrimStart(s) ==
    IF s # << >> /\ Head(s) \in JsonWhitespace THEN TrimStart(Tail(s)) ELSE s

RECURSIVE TrimEnd(_)
TrimEnd(s) ==
    IF s # << >> /\ s[Len(s)] \in JsonWhitespace THEN TrimEnd(SubSeq(s, 1, Len(s) - 1)) ELSE s

Trim(s) == TrimEnd(TrimStart(s))

\* (dept.subDepartments || []).flatMap((sub) => sub.patients)
RECURSIVE SubPatients(_)
SubPatients(subs) ==
    IF subs = << >> THEN << >> ELSE Head(subs).patients \o SubPatients(Tail(subs))

HasPasien(p) == p.hasPasien

\* getDeptPatients(dept)
getDeptPatients(dept) ==
    IF dept.hasSubDepartments
    THEN SubPatients(dept.subDepartments)
    ELSE SelectSeq(dept.patients, HasPasien)

\* the planner after mount
PlannerMounted ==
    [slots |-> DEFAULT_WEEKLY, weekOffset |-> 0,
     slotOpen |-> FALSE, saving |-> FALSE, editSlotId |-> Null, editDay |-> "senin",
     selectedDeptId |-> "", selectedPatientId |-> << >>,
     manualName |-> << >>, manualTelp |-> << >>, manualDept |-> << >>,
     inputMode |-> "select",
     call |-> << >>, handler |-> "", toast |-> "", upserts |-> {}, writes |-> 0]

\* the weeks are named by their distance from the week of today:
\* currentWeekKey, viewWeekKey and isCurrentWeek
currentWeekKey == 0
viewWeekKey == currentWeekKey + planner.weekOffset
isCurrentWeek == viewWeekKey = currentWeekKey

\* blankWeek(template)
blankWeek(template) ==
    [i \in DOMAIN template |-> [template[i] EXCEPT !.senin = << >>, !.selasa = << >>]]

\* viewSlots; the weeks of historyCache are shown as they were fetched and
\* are never edited
viewSlots == IF isCurrentWeek THEN planner.slots ELSE blankWeek(planner.slots)

selectedDept ==
    IF \E i \in DOMAIN PlannerDepartments : PlannerDepartments[i].id = planner.selectedDeptId
    THEN << PlannerDepartments[CHOOSE i \in DOMAIN PlannerDepartments :
                                  PlannerDepartments[i].id = planner.selectedDeptId] >>
    ELSE << >>

deptPatients == IF selectedDept # << >> THEN getDeptPatients(selectedDept[1]) ELSE << >>

selectedPatient ==
    IF \E i \in DOMAIN deptPatients : deptPatients[i].id = planner.selectedPatientId
    THEN << deptPatients[CHOOSE i \in DOMAIN deptPatients :
                            deptPatients[i].id = planner.selectedPatientId] >>
    ELSE << >>

\* setWeekOffset((o) => o - 1), (o) => o + 1, and 0
ShiftWeek ==
    /\ ~planner.slotOpen
    /\ \E o \in {planner.weekOffset - 1, planner.weekOffset + 1, 0} :
          /\ o \in (0 - MaxWeekOffset)..MaxWeekOffset
          /\ o # planner.weekOffset
          /\ planner' = [planner EXCEPT !.weekOffset = o]
    /\ UNCHANGED << dash, codec, celebration, photoModal, patientTable, home >>

\* the text `data.n ?? ""` of a parsed cell
FieldText(obj, key) ==
    IF Get(obj, key).type = "string" THEN Get(obj, key).s ELSE << >>

\* openSlot(slotId, day, rawValue) after `parsed = parseSlotValue(rawValue)`
\* was found not to be the break
openSlot(slotId, day, parsed) ==
    IF parsed # SlotEmpty
    THEN [planner EXCEPT !.editSlotId = slotId, !.editDay = day,
                         !.selectedDeptId = "", !.selectedPatientId = << >>,
                         !.manualName = FieldText(parsed.data, << "n" >>),
                         !.manualTelp = FieldText(parsed.data, << "t" >>),
                         !.manualDept = FieldText(parsed.data, << "d" >>),
                         !.inputMode = "manual", !.slotOpen = TRUE]
    ELSE [planner EXCEPT !.editSlotId = slotId, !.editDay = day,
                         !.selectedDeptId = "", !.selectedPatientId = << >>,
                         !.manualName = << >>, !.manualTelp = << >>,
                         !.manualDept = << >>,
                         !.inputMode = "select", !.slotOpen = TRUE]

\* openSlot, a mutation: the break is opened like any other cell
CanOpenBreak(parsed) == TRUE

\* what openSlot does with a parsed cell: nothing for the break
CanOpen(parsed) == parsed # SlotBreak

\* openSlot, a mutation: the cells of every week can be opened
OpenSlotAnyWeek ==
    /\ ~planner.slotOpen
    /\ \E i \in DOMAIN viewSlots, day \in DAYS :
          /\ CanOpen(parseSlotValue(viewSlots[i][day]))
          /\ planner' = openSlot(viewSlots[i].id, day, parseSlotValue(viewSlots[i][day]))
    /\ UNCHANGED << dash, codec, celebration, photoModal, patientTable, home >>

\* onClick={() => openSlot(slot.id, d.key, raw)} of a cell of the grid
OpenSlot ==
    /\ ~planner.slotOpen
    /\ isCurrentWeek
    /\ \E i \in DOMAIN viewSlots, day \in DAYS :
          /\ CanOpen(parseSlotValue(viewSlots[i][day]))
          /\ planner' = openSlot(viewSlots[i].id, day, parseSlotValue(viewSlots[i][day]))
    /\ UNCHANGED << dash, codec, celebration, photoModal, patientTable, home >>

\* onOpenChange and the Batal button: `if (!saving) setSlotOpen(open)`
CloseSlot ==
    /\ planner.slotOpen
    /\ ~planner.saving
    /\ planner' = [planner EXCEPT !.slotOpen = FALSE]
    /\ UNCHANGED << dash, codec, celebration, photoModal, patientTable, home >>

\* setInputMode(mode)
SetInputMode ==
    /\ planner.slotOpen
    /\ \E mode \in {"select", "manual"} :
          /\ mode # planner.inputMode
          /\ planner' = [planner EXCEPT !.inputMode = mode]
    /\ UNCHANGED << dash, codec, celebration, photoModal, patientTable, home >>

\* onValueChange of the department select: setSelectedDeptId(v); setSelectedPatientId("")
SelectDept ==
    /\ planner.slotOpen
    /\ planner.inputMode = "select"
    /\ \E i \in DOMAIN PlannerDepartments :
          /\ PlannerDepartments[i].id # planner.selectedDeptId
          /\ planner' = [planner EXCEPT !.selectedDeptId = PlannerDepartments[i].id,
                                        !.selectedPatientId = << >>]
    /\ UNCHANGED << dash, codec, celebration, photoModal, patientTable, home >>

\* onValueChange of the patient select, shown when a department is selected
SelectPatient ==
    /\ planner.slotOpen
    /\ planner.inputMode = "select"
    /\ planner.selectedDeptId # ""
    /\ \E i \in DOMAIN deptPatients :
          /\ deptPatients[i].id # planner.selectedPatientId
          /\ planner' = [planner EXCEPT !.selectedPatientId = deptPatients[i].id]
    /\ UNCHANGED << dash, codec, celebration, photoModal, patientTable, home >>

\* onChange of the name and phone inputs, onValueChange of the department select
TypeManual ==
    /\ planner.slotOpen
    /\ planner.inputMode = "manual"
    /\ \/ \E v \in ManualNames :
             /\ v # planner.manualName
             /\ planner' = [planner EXCEPT !.manualName = v]
       \/ \E v \in ManualTelps :
             /\ v # planner.manualTelp
             /\ planner' = [planner EXCEPT !.manualTelp = v]
       \/ \E v \in ManualDepts :
             /\ v # planner.manualDept
             /\ planner' = [planner EXCEPT !.manualDept = v]
    /\ UNCHANGED << dash, codec, celebration, photoModal, patientTable, home >>

\* handleSave, a mutation: the manual name is stored as the cell's text
LegacyValue(p) == Trim(p.manualName)

\* handleSave: valueToSave of the select mode and of the manual mode
SelectValue(p) ==
    serializeSlotData([n |-> selectedPatient[1].namaPasien,
                       t |-> selectedPatient[1].nomorTelp,
                       d |-> IF selectedDept # << >> THEN selectedDept[1].name ELSE << >>,
                       pid |-> selectedPatient[1].id])

ManualValue(p) ==
    serializeSlotData([n |-> Trim(p.manualName), t |-> Trim(p.manualTelp),
                       d |-> IF p.manualDept = NONE THEN << >> ELSE Trim(p.manualDept),
                       pid |-> << >>])

\* slots.map((s) => s.id === slotId ? { ...s, [day]: value } : s)
WithCell(slots, slotId, day, value) ==
    [i \in DOMAIN slots |->
        IF slots[i].id = slotId THEN [slots[i] EXCEPT ![day] = value] ELSE slots[i]]

\* toast.error and toast.success of the planner
SlotNotFound == "Slot tidak ditemukan. Perubahan dibatalkan."
SlotSaveFailed == "Gagal menyimpan jadwal. Perubahan dibatalkan."
SlotSaved == "Jadwal berhasil disimpan"
SlotCleared == "Jadwal dihapus"

\* updateSlot(slotId, day, value) up to its await, after setSaving(true):
\* the planner with the optimistic slots and the call it waits for
updateSlot(slotId, day, value) ==
    LET snapshot == planner.slots
        updated == WithCell(planner.slots, slotId, day, value)
        found == { i \in DOMAIN updated : updated[i].id = slotId }
    IN IF found = {}
       THEN [planner EXCEPT !.slots = snapshot, !.saving = FALSE, !.toast = SlotNotFound]
       ELSE LET target == updated[CHOOSE i \in found : \A j \in found : i <= j]
            IN [planner EXCEPT !.slots = updated, !.saving = TRUE,
                               !.call = Append(@, [snapshot |-> snapshot, target |-> target,
                                                   weekKey |-> currentWeekKey]),
                               !.upserts = @ \cup {target},
                               !.writes = @ + 1]

\* handleSave, a mutation: the saving flag is not looked at
HandleSaveWhileSaving ==
    /\ planner.slotOpen
    /\ planner.editSlotId # Null
    /\ planner.writes < MaxSlotWrites
    /\ IF planner.inputMode = "select"
       THEN /\ selectedPatient # << >>
            /\ planner' = [updateSlot(planner.editSlotId, planner.editDay, SelectValue(planner))
                              EXCEPT !.handler = "handleSave"]
       ELSE /\ Trim(planner.manualName) # << >>
            /\ planner' = [updateSlot(planner.editSlotId, planner.editDay, ManualValue(planner))
                              EXCEPT !.handler = "handleSave"]
    /\ UNCHANGED << dash, codec, celebration, photoModal, patientTable, home >>

\* handleSave
HandleSave ==
    /\ planner.slotOpen
    /\ planner.editSlotId # Null /\ ~planner.saving
    /\ planner.writes < MaxSlotWrites
    /\ IF planner.inputMode = "select"
       THEN /\ selectedPatient # << >>
            /\ planner' = [updateSlot(planner.editSlotId, planner.editDay, SelectValue(planner))
                              EXCEPT !.handler = "handleSave"]
       ELSE /\ Trim(planner.manualName) # << >>
            /\ planner' = [updateSlot(planner.editSlotId, planner.editDay, ManualValue(planner))
                              EXCEPT !.handler = "handleSave"]
    /\ UNCHANGED << dash, codec, celebration, photoModal, patientTable, home >>

\* currentSlot, editingRaw, isEditing
isEditing ==
    \E i \in DOMAIN viewSlots :
       /\ viewSlots[i].id = planner.editSlotId
       /\ parseSlotValue(viewSlots[i][planner.editDay]) \notin {SlotEmpty, SlotBreak}

\* handleClear, from the Hapus button, shown when the cell holds a booking
HandleClear ==
    /\ planner.slotOpen
    /\ isEditing
    /\ planner.editSlotId # Null /\ ~planner.saving
    /\ planner.writes < MaxSlotWrites
    /\ planner' = [updateSlot(planner.editSlotId, planner.editDay, << >>)
                      EXCEPT !.handler = "handleClear"]
    /\ UNCHANGED << dash, codec, celebration, photoModal, patientTable, home >>

\* the awaited upsertWeeklySlot settles: updateSlot returns true, or rolls
\* back and returns false; then setSaving(false) and, if ok, setSlotOpen(false)
SlotCallSettled ==
    /\ \E i \in DOMAIN planner.call, ok \in BOOLEAN :
          planner' =
             IF ok
             THEN [planner EXCEPT !.call = SubSeq(@, 1, i - 1) \o SubSeq(@, i + 1, Len(@)),
                                  !.saving = FALSE, !.slotOpen = FALSE,
                                  !.toast = IF planner.handler = "handleSave"
                                            THEN SlotSaved ELSE SlotCleared]
             ELSE [planner EXCEPT !.call = SubSeq(@, 1, i - 1) \o SubSeq(@, i + 1, Len(@)),
                                  !.saving = FALSE,
                                  !.slots = planner.call[i].snapshot,
                                  !.toast = SlotSaveFailed]
    /\ UNCHANGED << dash, codec, celebration, photoModal, patientTable, home >>

---------------------------------------------------------------------------
(* src/components/dashboard.tsx: Dashboard *)

InitDash ==
    /\ loading = TRUE
    /\ departments = << >>
    /\ appointments = << >>
    /\ modal = NoModal
    /\ calls = {}
    /\ ops = << >>
    /\ now = 1
    /\ remotePatients \in PatientTables
    /\ remoteAppts = ApptRows
    /\ remotePhotos = PhotoRows
    /\ storage = PhotoBlobs

\* the components modelled on their own, not in use
CodecIdle == codec = << >>
PlannerIdle == planner = PlannerMounted
CelebrationIdle == celebration = << >>
PhotoModalIdle == photoModal = << >>
TableIdle == patientTable = << >>
HomeIdle == home = << >>

Init == InitDash /\ CodecIdle /\ PlannerIdle /\ CelebrationIdle /\ PhotoModalIdle /\ TableIdle /\ HomeIdle

\* loadAll: each fetch returns [] when the service reports an error
LoadAll ==
    /\ loading
    /\ \E okD \in BOOLEAN, okA \in BOOLEAN :
        LET depts == IF okD THEN fetchDepartments(DeptRows, SubRows, remotePatients, PhotosByPatient)
                     ELSE << >>
            appts == IF okA THEN remoteAppts ELSE << >>
        IN /\ departments' = IF Len(depts) > 0 THEN depts ELSE departments
           /\ appointments' = IF Len(appts) > 0 THEN appts ELSE appointments
    /\ loading' = FALSE
    /\ UNCHANGED << modal, calls, ops, now, remotePatients, remoteAppts, remotePhotos, storage, aside >>

\* handleUpdateDepartment's `next`
ReplaceDept(prev, updated) ==
    [i \in DOMAIN prev |-> IF prev[i].id = updated.id THEN updated ELSE prev[i]]

NewDeptNames == {"Ortodonti"}

\* handleAddDepartment(name, hasSub)
AddDepartment ==
    /\ CanStart
    /\ modal.kind = "none"
    /\ \E name \in NewDeptNames, hasSub \in BOOLEAN :
        LET newDept == [ id |-> "dept-" \o ToString(now), name |-> name, patients |-> << >>,
                         hasSubDepartments |-> hasSub, subDepartments |-> << >> ]
            next == Append(departments, newDept)
            o == ThisOp
        IN /\ departments' = next
           /\ calls' = calls \cup {Call(o, "B", 0, "upsertDepartment", departments, << >>, Arg(newDept.id, << newDept >>, Null, << >>))}
           /\ ops' = Append(ops, [NewOp("addDepartment", newDept.id) EXCEPT
                                    !.N = << next, appointments >>, !.applied = TRUE, !.issued = 1])
    /\ now' = now + 1
    /\ UNCHANGED << loading, appointments, modal, remotePatients, remoteAppts, remotePhotos, storage, aside >>

\* handleDeleteDepartment(id), from the card's confirm dialog
DeleteDepartment ==
    /\ CanStart
    /\ modal.kind = "none"
    /\ \E d \in DOMAIN departments :
        LET id == departments[d].id
            next == SelectSeq(departments, LAMBDA x : x.id # id)
            o == ThisOp
        IN /\ departments' = next
           /\ calls' = calls \cup {Call(o, "B", 0, "deleteDepartment", departments, << >>, Arg(id, << >>, Null, << >>))}
           /\ ops' = Append(ops, [NewOp("deleteDepartment", id) EXCEPT
                                    !.N = << next, appointments >>, !.applied = TRUE, !.issued = 1])
    /\ UNCHANGED << loading, appointments, modal, now, remotePatients, remoteAppts, remotePhotos, storage, aside >>

\* the continuation of a call that resolved or rejected leaves `calls`
Settled(c) == calls \ {c}

\* .then(() => toast.success(...)).catch(() => { setDepartments(snapshot); toast.error(...) })
\* of handleAddDepartment and handleDeleteDepartment
DashboardCallSettled ==
    \E c \in calls, ok \in Outcomes :
        /\ ops[c.op].kind \in {"addDepartment", "deleteDepartment"}
        /\ c.tag = "B"
        /\ calls' = Settled(c)
        /\ IF ok
           THEN /\ ops' = [ops EXCEPT ![c.op].okToasts = @ + 1]
                /\ UNCHANGED departments
           ELSE /\ departments' = c.snap
                /\ ops' = [ops EXCEPT ![c.op].errToasts = @ + 1, ![c.op].failed = @ + 1,
                                      ![c.op].caught = TRUE, ![c.op].seenAtCatch = {o \in DOMAIN ops : ops[o].applied},
                                      ![c.op].restored = << << c.snap, appointments >> >>,
                                      ![c.op].rolledBackTo = << << c.snap, appointments >> >>]
        /\ UNCHANGED << loading, appointments, modal, now, remotePatients, remoteAppts, remotePhotos, storage, aside >>

\* a mutation of handleUpdateDepartment: it restores its snapshot once the
\* call has settled, resolved or not
ResolvedRestores(c) == c.snap

\* upsertDepartment(updated) resolved: handleUpdateDepartment has no .then,
\* the list stays as it is
Resolved(c) == departments

\* upsertDepartment(updated).catch(() => { setDepartments(snapshot); toast.error(...) })
\* of handleUpdateDepartment, which every onUpdate of a DepartmentCard runs
UpdateDepartmentSettled ==
    \E c \in calls, ok \in Outcomes :
        /\ c.tag \in {"A", "C"}
        /\ calls' = Settled(c)
        /\ IF ok
           THEN /\ departments' = Resolved(c)
                /\ UNCHANGED ops
           ELSE /\ departments' = c.snap
                /\ ops' = [ops EXCEPT ![c.op].errToasts = @ + 1, ![c.op].failed = @ + 1,
                                      ![c.op].rolledBackTo = << << c.snap, appointments >> >>]
        /\ UNCHANGED << loading, appointments, modal, now, remotePatients, remoteAppts, remotePhotos, storage, aside >>

---------------------------------------------------------------------------
(* src/components/weekly-planning.tsx (appointments-table part): AppointmentsTable *)

FormInputs == {"Ani 09:30"}

\* openAdd / openEdit(appt)
OpenApptForm ==
    /\ CanStart
    /\ modal.kind = "none"
    /\ \/ modal' = [NoModal EXCEPT !.kind = "appt", !.mode = "add"]
       \/ \E i \in DOMAIN appointments :
            modal' = [NoModal EXCEPT !.kind = "appt", !.mode = "edit", !.item = << appointments[i] >>]
    /\ UNCHANGED << loading, departments, appointments, calls, ops, now, remotePatients, remoteAppts, remotePhotos, storage, aside >>

\* handleSubmit
SubmitAppt ==
    /\ CanStart
    /\ modal.kind = "appt"
    /\ \E formData \in FormInputs :
        LET o == ThisOp
            editingAppt == modal.item
            updated == IF Len(editingAppt) > 0
                       THEN [editingAppt[1] EXCEPT !.formData = formData]
                       ELSE Appointment("a-" \o ToString(now), formData, FALSE)
            next == IF Len(editingAppt) > 0
                    THEN [i \in DOMAIN appointments |->
                            IF appointments[i].id = updated.id THEN updated ELSE appointments[i]]
                    ELSE Append(appointments, updated)
        IN /\ appointments' = next
           /\ calls' = calls \cup {Call(o, "B", 0, "upsertAppointment", appointments, << >>, Arg(updated.id, << updated >>, Null, << >>))}
           /\ ops' = Append(ops, [NewOp(IF Len(editingAppt) > 0 THEN "editAppt" ELSE "addAppt", updated.id)
                                    EXCEPT !.N = << departments, next >>, !.applied = TRUE, !.issued = 1])
    /\ now' = now + 1
    /\ UNCHANGED << loading, departments, modal, remotePatients, remoteAppts, remotePhotos, storage, aside >>

\* the delete button of a row: setDeletingId(id); setDeleteConfirmOpen(true)
OpenApptDelete ==
    /\ CanStart
    /\ modal.kind = "none"
    /\ \E i \in DOMAIN appointments :
        modal' = [NoModal EXCEPT !.kind = "apptDelete", !.id = appointments[i].id]
    /\ UNCHANGED << loading, departments, appointments, calls, ops, now, remotePatients, remoteAppts, remotePhotos, storage, aside >>

\* confirmDelete, up to its await; the dialog's action button closes the dialog
ConfirmDeleteAppt ==
    /\ CanStart
    /\ modal.kind = "apptDelete"
    /\ LET o == ThisOp
           deletingId == modal.id
           next == SelectSeq(appointments, LAMBDA a : a.id # deletingId)
       IN /\ appointments' = next
          /\ calls' = calls \cup {Call(o, "B", 0, "deleteAppointment", appointments, << >>, Arg(deletingId, << >>, Null, << >>))}
          /\ ops' = Append(ops, [NewOp("deleteAppt", deletingId)
                                   EXCEPT !.N = << departments, next >>, !.applied = TRUE, !.issued = 1])
    /\ modal' = NoModal
    /\ UNCHANGED << loading, departments, now, remotePatients, remoteAppts, remotePhotos, storage, aside >>

\* toggleChecklist(id)
ToggleChecklist ==
    /\ CanStart
    /\ modal.kind = "none"
    /\ \E k \in DOMAIN appointments :
        LET o == ThisOp
            id == appointments[k].id
            updated == [i \in DOMAIN appointments |->
                          IF appointments[i].id = id
                          THEN [appointments[i] EXCEPT !.checklist = ~@] ELSE appointments[i]]
            appt == updated[k]
        IN /\ appointments' = updated
           /\ calls' = calls \cup {Call(o, "B", 0, "upsertAppointment", appointments, << >>, Arg(id, << appt >>, Null, << >>))}
           /\ ops' = Append(ops, [NewOp("toggleChecklist", id)
                                    EXCEPT !.N = << departments, updated >>, !.applied = TRUE, !.issued = 1])
    /\ UNCHANGED << loading, departments, modal, now, remotePatients, remoteAppts, remotePhotos, storage, aside >>

\* onUpdate(snapshot) in the catch blocks of AppointmentsTable
RollbackAppts(c) == c.snap

\* the rest of handleSubmit, confirmDelete and toggleChecklist, after the await
ApptCallSettled ==
    \E c \in calls, ok \in Outcomes :
        LET kind == ops[c.op].kind IN
        /\ kind \in {"addAppt", "editAppt", "deleteAppt", "toggleChecklist"}
        /\ calls' = Settled(c)
        /\ IF ok
           THEN /\ remoteAppts' = IF kind = "deleteAppt" THEN DeleteRow(remoteAppts, c.arg.id)
                                  ELSE Upsert(remoteAppts, c.arg.row[1])
                /\ ops' = [ops EXCEPT ![c.op].okToasts = IF kind = "toggleChecklist" THEN @ ELSE @ + 1]
                /\ modal' = IF kind \in {"addAppt", "editAppt"} /\ modal.kind = "appt"
                            THEN NoModal ELSE modal
                /\ UNCHANGED appointments
           ELSE /\ appointments' = RollbackAppts(c)
                /\ ops' = [ops EXCEPT ![c.op].errToasts = @ + 1, ![c.op].failed = @ + 1,
                                      ![c.op].caught = TRUE, ![c.op].seenAtCatch = {o \in DOMAIN ops : ops[o].applied},
                                      ![c.op].restored = << << departments, appointments' >> >>,
                                      ![c.op].rolledBackTo = << << departments, appointments' >> >>]
                /\ UNCHANGED << remoteAppts, modal >>
        /\ UNCHANGED << loading, departments, now, remotePatients, remotePhotos, storage, aside >>

\* Cancel / onOpenChange(false) of the open dialog
CloseModal ==
    /\ CanStart
    /\ modal.kind # "none"
    /\ modal' = NoModal
    /\ UNCHANGED << loading, departments, appointments, calls, ops, now, remotePatients, remoteAppts, remotePhotos, storage, aside >>

---------------------------------------------------------------------------
(* src/components/department-card.tsx: DepartmentCard *)

RECURSIVE FlatPatients(_)
\* (department.subDepartments || []).flatMap((s) => s.patients)
FlatPatients(subs) ==
    IF subs = << >> THEN << >> ELSE Head(subs).patients \o FlatPatients(Tail(subs))

allPatients(department) ==
    IF department.hasSubDepartments THEN FlatPatients(department.subDepartments)
    ELSE department.patients

\* The rows a card renders: << subDeptId passed to the handlers, list, index >>
Rows(department) ==
    IF department.hasSubDepartments
    THEN { << department.subDepartments[k].id, department.subDepartments[k].patients, i >> :
             k \in DOMAIN department.subDepartments, i \in 1..3 }
    ELSE { << Null, department.patients, i >> : i \in 1..3 }

Rendered(department) == { r \in Rows(department) : r[3] \in DOMAIN r[2] }

\* the patient list a handler's update works on: s.patients of the sub-department with
\* s.id === subDeptId when `subDeptId && hasSubDepartments`, department.patients otherwise
\* (empty when no sub-department has that id: the map then changes nothing)
TargetPatients(department, subDeptId) ==
    IF subDeptId # Null /\ department.hasSubDepartments
    THEN LET hit == SelectSeq(department.subDepartments, LAMBDA s : s.id = subDeptId)
         IN IF Len(hit) > 0 THEN hit[1].patients ELSE << >>
    ELSE department.patients

\* a mutation of the handlers' update: the list is always placed on the
\* department itself
UpdatePatientsDirect(department, subDeptId, patients) ==
    [department EXCEPT !.patients = patients]

\* `subDeptId && hasSubDepartments ? { ...department, subDepartments: ...map(s => s.id === subDeptId
\*  ? { ...s, patients } : s) } : { ...department, patients }`
UpdatePatients(department, subDeptId, patients) ==
    IF subDeptId # Null /\ department.hasSubDepartments
    THEN LET subs == department.subDepartments IN
         [department EXCEPT !.subDepartments =
            [k \in DOMAIN subs |-> IF subs[k].id = subDeptId
                                   THEN [subs[k] EXCEPT !.patients = patients]
                                   ELSE subs[k]]]
    ELSE [department EXCEPT !.patients = patients]

\* patients.map((p) => p.id === id ? q : p)
MapPatient(patients, id, q) ==
    [i \in DOMAIN patients |-> IF patients[i].id = id THEN q ELSE patients[i]]

\* the subDepartmentId the handlers pass to upsertPatient
SubForSave(department, subDeptId) ==
    IF subDeptId # Null /\ department.hasSubDepartments THEN subDeptId ELSE Null

\* onUpdate(updated) of a card runs handleUpdateDepartment: the call it issues
UpdateCall(o, tag, updated) ==
    Call(o, tag, 0, "upsertDepartment", departments, << >>, Arg(updated.id, << updated >>, Null, << >>))

StatusInputs == {"Selesai"}

\* handleStatusChange(patientId, status, subDeptId)
StatusChange ==
    /\ CanStart
    /\ modal.kind = "none"
    /\ \E d \in DOMAIN departments :
       \E r \in Rendered(departments[d]), status \in StatusInputs :
        LET o == ThisOp
            department == departments[d]
            subDeptId == r[1]
            patientId == r[2][r[3]].id
            Change(patients) == [i \in DOMAIN patients |->
                                    IF patients[i].id = patientId
                                    THEN [patients[i] EXCEPT !.status = status]
                                    ELSE patients[i]]
            updated == UpdatePatients(department, subDeptId,
                                      Change(TargetPatients(department, subDeptId)))
            found == SelectSeq(allPatients(department), LAMBDA p : p.id = patientId)
            next == ReplaceDept(departments, updated)
        IN /\ r[2][r[3]].status # status
           /\ departments' = next
           /\ calls' = calls \cup {UpdateCall(o, "A", updated)} \cup
                 (IF Len(found) > 0
                  THEN {Call(o, "B", 0, "upsertPatient", << >>, << department >>,
                             Arg(patientId,
                                 << PatientRow([found[1] EXCEPT !.status = status], department.id, subDeptId) >>,
                                 subDeptId, << >>))}
                  ELSE {})
           /\ ops' = Append(ops, [NewOp("statusChange", patientId) EXCEPT
                                    !.N = << next, appointments >>, !.applied = TRUE,
                                    !.issued = IF Len(found) > 0 THEN 2 ELSE 1])
    /\ UNCHANGED << loading, appointments, modal, now, remotePatients, remoteAppts, remotePhotos, storage, aside >>

NewSubDeptNames == {"Mayor"}

\* handleAddSubDept, up to its await
AddSubDept ==
    /\ CanStart
    /\ modal.kind = "none"
    /\ \E d \in DOMAIN departments, newSubDeptName \in NewSubDeptNames :
        LET o == ThisOp
            department == departments[d]
            newSub == [id |-> "sub-" \o ToString(now), name |-> newSubDeptName, patients |-> << >>]
            updated == [department EXCEPT !.subDepartments = Append(@, newSub)]
            next == ReplaceDept(departments, updated)
        IN /\ department.hasSubDepartments
           /\ departments' = next
           /\ calls' = calls \cup
                 { UpdateCall(o, "A", updated),
                   Call(o, "B", 0, "upsertSubDepartment", << >>, << department >>,
                        Arg(newSub.id, << newSub >>, Null, << >>)) }
           /\ ops' = Append(ops, [NewOp("addSubDept", newSub.id) EXCEPT
                                    !.N = << next, appointments >>, !.applied = TRUE, !.issued = 2])
    /\ now' = now + 1
    /\ UNCHANGED << loading, appointments, modal, remotePatients, remoteAppts, remotePhotos, storage, aside >>

\* handleAddPatient, handleEditPatient, handleOpenPasienList, handleDeletePatient, handleOpenPhotos
OpenCardDialog ==
    /\ CanStart
    /\ modal.kind = "none"
    /\ \E d \in DOMAIN departments :
        LET department == departments[d]
            Dialog(kind, sub) == [NoModal EXCEPT !.kind = kind, !.dept = department.id, !.sub = sub]
        IN \/ \E k \in DOMAIN department.subDepartments :
                /\ department.hasSubDepartments
                /\ modal' = [Dialog("form", department.subDepartments[k].id) EXCEPT !.mode = "add"]
           \/ /\ ~department.hasSubDepartments
              /\ modal' = [Dialog("form", Null) EXCEPT !.mode = "add"]
           \/ \E r \in Rendered(department) :
                modal' = [Dialog("form", r[1]) EXCEPT !.mode = "edit", !.item = << r[2][r[3]] >>]
           \/ \E r \in Rendered(department) :
                modal' = [Dialog("pasien", r[1]) EXCEPT !.item = << r[2][r[3]] >>]
           \/ \E r \in Rendered(department) :
                modal' = [Dialog("delete", r[1]) EXCEPT !.id = r[2][r[3]].id]
           \/ \E r \in Rendered(department) :
                modal' = [Dialog("photo", r[1]) EXCEPT !.item = << r[2][r[3]] >>]
    /\ UNCHANGED << loading, departments, appointments, calls, ops, now, remotePatients, remoteAppts, remotePhotos, storage, aside >>

\* the card whose dialog is open, while it is mounted
ModalCard == { d \in DOMAIN departments : departments[d].id = modal.dept }

RequirementInputs == {"Tambal"}

NewPatient(id, data) ==
    syncLegacyFields([ id |-> id, requirement |-> data.requirement, status |-> data.status,
                       pasienList |-> << >>, hasPasien |-> FALSE, namaPasien |-> "",
                       nomorTelp |-> "", photos |-> << >> ])

\* handleSavePatientForm(data), up to its first await; PatientFormModal.handleSubmit
\* then closes the dialog
SavePatientForm ==
    /\ CanStart
    /\ modal.kind = "form"
    /\ \E d \in ModalCard, requirement \in RequirementInputs, status \in StatusInputs :
        LET o == ThisOp
            department == departments[d]
            data == [requirement |-> requirement, status |-> status]
            targetSubDeptId == modal.sub
            subDeptIdForSave == SubForSave(department, targetSubDeptId)
        IN IF modal.mode = "add"
           THEN LET newP == NewPatient("p-" \o ToString(now), data)
                    updated == UpdatePatients(department, targetSubDeptId,
                                   Append(TargetPatients(department, targetSubDeptId), newP))
                IN /\ calls' = calls \cup
                        {Call(o, "G", 0, "getNextSortOrder", << >>, << department >>,
                              Arg(newP.id, << newP >>, subDeptIdForSave, << updated >>))}
                   /\ ops' = Append(ops, [NewOp("addRequirement", newP.id) EXCEPT !.issued = 1])
                   /\ UNCHANGED departments
           ELSE LET editingPatient == modal.item[1]
                    upd == syncLegacyFields([editingPatient EXCEPT !.requirement = data.requirement,
                                                                   !.status = data.status])
                    updated == UpdatePatients(department, targetSubDeptId,
                                   MapPatient(TargetPatients(department, targetSubDeptId),
                                              editingPatient.id, upd))
                    next == ReplaceDept(departments, updated)
                IN /\ departments' = next
                   /\ calls' = calls \cup
                        { UpdateCall(o, "A", updated),
                          Call(o, "B", 0, "upsertPatient", << >>, << department >>,
                               Arg(upd.id, << PatientRow(upd, department.id, subDeptIdForSave) >>,
                                   subDeptIdForSave, << >>)) }
                   /\ ops' = Append(ops, [NewOp("editRequirement", upd.id) EXCEPT
                                            !.N = << next, appointments >>, !.applied = TRUE, !.issued = 2])
    /\ modal' = NoModal
    /\ now' = now + 1
    /\ UNCHANGED << loading, appointments, remotePatients, remoteAppts, remotePhotos, storage, aside >>

\* handleSavePatientForm in add mode, after `await getNextSortOrder(...)`:
\* onUpdate(updated), then upsertPatient; a rejection leaves the handler
SortOrderSettled ==
    \E c \in calls, ok \in Outcomes :
        /\ c.tag = "G"
        /\ IF ok
           THEN LET updated == c.arg.upd[1]
                    next == ReplaceDept(departments, updated)
                IN /\ departments' = next
                   /\ calls' = Settled(c) \cup
                        { UpdateCall(c.op, "A", updated),
                          Call(c.op, "B", 0, "upsertPatient", << >>, c.dept,
                               Arg(c.arg.id, << PatientRow(c.arg.row[1], c.dept[1].id, c.arg.sub) >>,
                                   c.arg.sub, << >>)) }
                   /\ ops' = [ops EXCEPT ![c.op].N = << next, appointments >>,
                                         ![c.op].applied = TRUE,
                                         ![c.op].settledAtApply = 1,
                                         ![c.op].issued = @ + 2]
           ELSE /\ calls' = Settled(c)
                /\ ops' = [ops EXCEPT ![c.op].failed = @ + 1, ![c.op].unhandled = @ + 1]
                /\ UNCHANGED departments
        /\ UNCHANGED << loading, appointments, modal, now, remotePatients, remoteAppts, remotePhotos, storage, aside >>

\* What PasienListModal hands to onSave: the captured list after addEntry,
\* deleteEntry(i) or saveEdit of entry i
ListEdits(list) ==
    { Append(list, Entry("pe-" \o ToString(now), "Dewi", "0833")) }
    \cup { SubSeq(list, 1, i - 1) \o SubSeq(list, i + 1, Len(list)) : i \in DOMAIN list }
    \cup { [list EXCEPT ![i] = Entry(list[i].id, "Eka", "")] : i \in DOMAIN list }

\* handleSavePasienList(updatedList), up to its await; PasienListModal.handleSave
\* then closes the dialog
SavePasienList ==
    /\ CanStart
    /\ modal.kind = "pasien"
    /\ \E d \in ModalCard :
       \E updatedList \in ListEdits(modal.item[1].pasienList) :
        LET o == ThisOp
            department == departments[d]
            pasienListPatient == modal.item[1]
            updatedPatient == syncLegacyFields([pasienListPatient EXCEPT !.pasienList = updatedList])
            updated == UpdatePatients(department, modal.sub,
                           MapPatient(TargetPatients(department, modal.sub),
                                      updatedPatient.id, updatedPatient))
            subDeptId == SubForSave(department, modal.sub)
            next == ReplaceDept(departments, updated)
        IN /\ departments' = next
           /\ calls' = calls \cup
                { UpdateCall(o, "A", updated),
                  Call(o, "B", 0, "upsertPatient", << >>, << department >>,
                       Arg(updatedPatient.id,
                           << PatientRow(updatedPatient, department.id, subDeptId) >>,
                           subDeptId, << >>)) }
           /\ ops' = Append(ops, [NewOp("savePasienList", updatedPatient.id) EXCEPT
                                    !.input = << pasienListPatient, updatedList >>,
                                    !.N = << next, appointments >>, !.applied = TRUE, !.issued = 2])
    /\ modal' = NoModal
    /\ now' = now + 1
    /\ UNCHANGED << loading, appointments, remotePatients, remoteAppts, remotePhotos, storage, aside >>

\* confirmDeletePatient, up to its await; the dialog's action button closes the dialog
ConfirmDeletePatient ==
    /\ CanStart
    /\ modal.kind = "delete"
    /\ \E d \in ModalCard :
        LET o == ThisOp
            department == departments[d]
            deletingPatientId == modal.id
            updated == UpdatePatients(department, modal.sub,
                           SelectSeq(TargetPatients(department, modal.sub),
                                     LAMBDA p : p.id # deletingPatientId))
            next == ReplaceDept(departments, updated)
        IN /\ departments' = next
           /\ calls' = calls \cup
                { UpdateCall(o, "A", updated),
                  Call(o, "B", 0, "deletePatient", << >>, << department >>,
                       Arg(deletingPatientId, << >>, Null, << >>)) }
           /\ ops' = Append(ops, [NewOp("deleteRequirement", deletingPatientId) EXCEPT
                                    !.N = << next, appointments >>, !.applied = TRUE, !.issued = 2])
    /\ modal' = NoModal
    /\ UNCHANGED << loading, appointments, now, remotePatients, remoteAppts, remotePhotos, storage, aside >>

\* a mutation of the catch blocks of the card: they report the failure and
\* leave the department as it is
RollbackDeptKeep(c) == departments

\* onUpdate(department) in a catch block of the card: handleUpdateDepartment
\* puts the department the handler closed over back into the list
RollbackDept(c) == ReplaceDept(departments, c.dept[1])

\* onUpdate(department) in a catch block runs handleUpdateDepartment again:
\* the calls the rollback issues
RollbackCalls(c) == {UpdateCall(c.op, "C", c.dept[1])}

\* toast.success calls a card handler makes once its own call has settled
SuccessToasts(kind, ok) ==
    CASE kind = "statusChange" -> 0
      [] kind = "addSubDept" -> 1
      [] OTHER -> IF ok THEN 1 ELSE 0

\* the three awaits of deletePatient(id), in the order it runs them
DeleteSteps == << "selectPhotos", "removeBlobs", "deletePatientRow" >>

\* what an await of the service client resolves to in deletePatient: its
\* result, or an { error } the function does not look at
StepResults == {"ok", "error"}

\* deletePatient(id), its first two awaits:
\*   select storage_path from patient_photos where patient_id = id
\*   storage.remove(paths), when there are photos with a path
\* c.idx is the await it stands at, c.arg.row the paths it selected
DeletePatientStep ==
    \E c \in calls, result \in StepResults :
        LET photos == IF result = "ok"
                      THEN SelectSeq(remotePhotos, LAMBDA r : r.patient_id = c.arg.id)
                      ELSE << >>
            paths == { photos[i].storage_path : i \in DOMAIN photos } \ {Null, ""}
            step == [c EXCEPT !.idx = IF c.idx = 0 /\ paths # {} THEN 1 ELSE 2,
                              !.arg.row = IF c.idx = 0 THEN << paths >> ELSE @]
        IN
        /\ c.fn = "deletePatient"
        /\ c.idx \in {0, 1}
        /\ calls' = (calls \ {c}) \cup {step}
        /\ storage' = IF c.idx = 1 /\ result = "ok" THEN RemoveBlobs(storage, c.arg.row[1]) ELSE storage
        /\ ops' = [ops EXCEPT ![c.op].steps = Append(@, << DeleteSteps[c.idx + 1], result >>)]
        /\ UNCHANGED << loading, departments, appointments, modal, now >>
        /\ UNCHANGED << remotePatients, remoteAppts, remotePhotos, aside >>

\* what `patients.delete().eq("id", id)` may leave: the row deleted and the
\* photo rows with it (a cascading foreign key), the row deleted alone, or
\* an { error } and nothing deleted
RowDeleteResults(c) ==
    IF c.fn = "deletePatient" THEN {"cascade", "deleted", "error"} ELSE {"done"}

\* the rest of handleSavePatientForm, handleSavePasienList, handleStatusChange,
\* confirmDeletePatient and handleAddSubDept, after the await of their own call;
\* for confirmDeletePatient the call resolves with the last await of deletePatient
\* and rejects with any of its awaits
CardCallSettled ==
    \E c \in calls, ok \in Outcomes :
        LET kind == ops[c.op].kind
            department == c.dept[1]
            rollback == RollbackCalls(c)
            step == IF c.fn = "deletePatient" THEN << DeleteSteps[c.idx + 1] >> ELSE << >>
        IN
        /\ kind \in {"addRequirement", "editRequirement", "savePasienList", "statusChange",
                     "deleteRequirement", "addSubDept"}
        /\ c.tag = "B"
        /\ IF ok
           THEN /\ c.fn = "deletePatient" => c.idx = 2
                /\ \E result \in RowDeleteResults(c) :
                     /\ remotePatients' =
                          CASE c.fn = "upsertPatient" -> Upsert(remotePatients, c.arg.row[1])
                            [] c.fn = "deletePatient" /\ result # "error" ->
                                   DeleteRow(remotePatients, c.arg.id)
                            [] OTHER -> remotePatients
                     /\ remotePhotos' =
                          IF result = "cascade"
                          THEN SelectSeq(remotePhotos, LAMBDA r : r.patient_id # c.arg.id)
                          ELSE remotePhotos
                     /\ ops' = [ops EXCEPT
                           ![c.op].okToasts = @ + SuccessToasts(kind, TRUE),
                           ![c.op].steps = IF step = << >> THEN @
                                           ELSE Append(@, << step[1],
                                                  IF result = "error" THEN "error" ELSE "ok" >>)]
                /\ calls' = Settled(c)
                /\ UNCHANGED departments
           ELSE /\ departments' = RollbackDept(c)
                /\ calls' = Settled(c) \cup rollback
                /\ ops' = [ops EXCEPT ![c.op].errToasts = @ + 1, ![c.op].failed = @ + 1,
                                      ![c.op].caught = TRUE, ![c.op].seenAtCatch = {o \in DOMAIN ops : ops[o].applied},
                                      ![c.op].issued = @ + Cardinality(rollback),
                                      ![c.op].autoIssued = @ + Cardinality(rollback),
                                      ![c.op].okToasts = @ + SuccessToasts(kind, FALSE),
                                      ![c.op].steps = IF step = << >> THEN @
                                                      ELSE Append(@, << step[1], "reject" >>),
                                      ![c.op].restored = << << departments', appointments >> >>,
                                      ![c.op].rolledBackTo = << << departments', appointments >> >>]
                /\ UNCHANGED << remotePatients, remotePhotos >>
        /\ modal' = IF kind = "deleteRequirement" /\ modal.kind = "delete" /\ modal.dept = department.id
                    THEN NoModal ELSE modal
        /\ UNCHANGED << loading, appointments, now, remoteAppts, storage, aside >>

\* a mutation of arrayMove: the two rows change places
ArraySwap(list, from, to) ==
    [i \in DOMAIN list |-> IF i = from THEN list[to] ELSE IF i = to THEN list[from] ELSE list[i]]

\* arrayMove(patients, oldIndex, newIndex) of @dnd-kit/sortable
ArrayMove(list, from, to) ==
    LET rest == SubSeq(list, 1, from - 1) \o SubSeq(list, from + 1, Len(list))
    IN SubSeq(rest, 1, to - 1) \o << list[from] >> \o SubSeq(rest, to, Len(rest))

\* patients.findIndex((p) => p.id === id), counted from 1; 0 for -1
FindIndex(patients, id) ==
    IF \E i \in DOMAIN patients : patients[i].id = id
    THEN CHOOSE i \in DOMAIN patients :
            patients[i].id = id /\ \A j \in 1..(i - 1) : patients[j].id # id
    ELSE 0

\* PatientTable.handleDragEnd({ active, over }): the list handed to onReorder,
\* or nothing when it returns early; over is Null for a drop outside any row
handleDragEnd(patients, active, over) ==
    IF over = Null \/ active = over THEN << >>
    ELSE LET oldIndex == FindIndex(patients, active)
             newIndex == FindIndex(patients, over)
         IN IF oldIndex = 0 \/ newIndex = 0 THEN << >>
            ELSE << ArrayMove(patients, oldIndex, newIndex) >>

\* a mutation of handleReorderPatients: only the dragged row's position is written
MovedPositionWrite(o, department, newList, moved) ==
    { Call(o, "B", idx, "upsertPatientSortOrder", << >>, << department >>,
           Arg(newList[idx].id, << >>, Null, << >>)) : idx \in {moved} }

\* newList.map((p, idx) => upsertPatientSortOrder(p.id, idx + 1)); the lists
\* of the model count from 1, so the position written is the index in newList
PositionWrites(o, department, newList, moved) ==
    { Call(o, "B", idx, "upsertPatientSortOrder", << >>, << department >>,
           Arg(newList[idx].id, << >>, Null, << >>)) : idx \in DOMAIN newList }

\* PatientTable.handleDragEnd, then handleReorderPatients(newList, subDeptId) up to its await
Reorder ==
    /\ CanStart
    /\ modal.kind = "none"
    /\ \E d \in DOMAIN departments :
       \E r \in Rendered(departments[d]), newIndex \in 1..3 :
        /\ newIndex \in DOMAIN r[2]
        /\ handleDragEnd(r[2], r[2][r[3]].id, r[2][newIndex].id) # << >>
        /\ LET o == ThisOp
               department == departments[d]
               newList == handleDragEnd(r[2], r[2][r[3]].id, r[2][newIndex].id)[1]
               updated == UpdatePatients(department, r[1], newList)
               next == ReplaceDept(departments, updated)
           IN /\ departments' = next
              /\ calls' = calls \cup {UpdateCall(o, "A", updated)} \cup
                              PositionWrites(o, department, newList, newIndex)
              /\ ops' = Append(ops, [NewOp("reorder", department.id) EXCEPT
                                       !.N = << next, appointments >>, !.applied = TRUE,
                                       !.input = << r[1], r[3], newIndex >>,
                                       !.issued = 1 + Len(newList)])
    /\ UNCHANGED << loading, appointments, modal, now, remotePatients, remoteAppts, remotePhotos, storage, aside >>

\* upsertPatientSortOrder(id, position), which department-card.tsx imports
\* from supabase-queries: a position write that resolves or rejects
SortOrderOutcomes == Outcomes

\* the rest of handleReorderPatients: Promise.all rejects with the first
\* rejection, and its catch block runs once
ReorderCallSettled ==
    \E c \in calls, ok \in SortOrderOutcomes :
        LET department == c.dept[1]
            rollback == RollbackCalls(c)
        IN
        /\ ops[c.op].kind = "reorder"
        /\ c.tag = "B"
        /\ IF ok
           THEN /\ calls' = Settled(c)
                /\ ops' = [ops EXCEPT ![c.op].writes = @ \cup {<< c.arg.id, c.idx, TRUE >>}]
                /\ UNCHANGED departments
           ELSE IF ops[c.op].caught
           THEN /\ calls' = Settled(c)
                /\ ops' = [ops EXCEPT ![c.op].failed = @ + 1,
                                      ![c.op].writes = @ \cup {<< c.arg.id, c.idx, FALSE >>}]
                /\ UNCHANGED departments
           ELSE /\ departments' = RollbackDept(c)
                /\ calls' = Settled(c) \cup rollback
                /\ ops' = [ops EXCEPT ![c.op].errToasts = @ + 1, ![c.op].failed = @ + 1,
                                      ![c.op].caught = TRUE, ![c.op].seenAtCatch = {o \in DOMAIN ops : ops[o].applied},
                                      ![c.op].issued = @ + Cardinality(rollback),
                                      ![c.op].autoIssued = @ + Cardinality(rollback),
                                      ![c.op].writes = @ \cup {<< c.arg.id, c.idx, FALSE >>},
                                      ![c.op].restored = << << departments', appointments >> >>,
                                      ![c.op].rolledBackTo = << << departments', appointments >> >>]
        /\ UNCHANGED << loading, appointments, modal, now, remotePatients, remoteAppts, remotePhotos, storage, aside >>

\* PhotoModal.handleFileChange with a file under the size limit, then
\* handleAddPhoto(base64) up to its await
AddPhoto ==
    /\ CanStart
    /\ modal.kind = "photo"
    /\ \E d \in ModalCard :
        LET photoPatient == modal.item[1] IN
        /\ calls' = calls \cup
              {Call(ThisOp, "B", 0, "uploadPhotoBase64", << >>, << departments[d] >>,
                    Arg(photoPatient.id, << photoPatient >>, modal.sub, << >>))}
        /\ ops' = Append(ops, [NewOp("addPhoto", photoPatient.id) EXCEPT !.issued = 1])
    /\ UNCHANGED << loading, departments, appointments, modal, now, remotePatients, remoteAppts, remotePhotos, storage, aside >>

\* PhotoModal.handleRemove(index), then handleRemovePhoto(index) up to its await
RemovePhoto ==
    /\ CanStart
    /\ modal.kind = "photo"
    /\ \E d \in ModalCard :
        LET photoPatient == modal.item[1] IN
        \E index \in DOMAIN photoPatient.photos :
        /\ calls' = calls \cup
              {Call(ThisOp, "B", index, "deletePhoto", << >>, << departments[d] >>,
                    Arg(photoPatient.id, << photoPatient >>, modal.sub, << >>))}
        /\ ops' = Append(ops, [NewOp("removePhoto", photoPatient.id) EXCEPT !.issued = 1])
    /\ UNCHANGED << loading, departments, appointments, modal, now, remotePatients, remoteAppts, remotePhotos, storage, aside >>

\* updatePhotosInState(patientId, photos, subDeptId), over the department the handler closed over
updatePhotosInState(department, patientId, photos, subDeptId) ==
    LET fn(patients) == [i \in DOMAIN patients |->
                            IF patients[i].id = patientId
                            THEN [patients[i] EXCEPT !.photos = photos]
                            ELSE patients[i]]
    IN UpdatePatients(department, subDeptId, fn(TargetPatients(department, subDeptId)))

\* what uploadPhotoBase64 and deletePhoto may do: resolve, resolve with null
\* (the upload or the insert reported an error), or reject
PhotoOutcomes(fn) ==
    {"ok"} \cup (IF Failures(ops) < MaxFailures
                 THEN (IF fn = "uploadPhotoBase64" THEN {"null", "reject"} ELSE {"reject"})
                 ELSE {})

\* what the call has left in the service when it settles. uploadPhotoBase64
\* stores the blob, then inserts the row: null comes from a failed upload
\* (nothing stored) or a failed insert (the blob stays). deletePhoto removes
\* the blob, then deletes the row; it rejects at either await.
PhotoStore(c, outcome, photo, done) ==
    LET old == c.arg.row[1].photos[c.idx]
        oldPath == {old.storagePath} \ {Null, ""}
    IN IF c.fn = "uploadPhotoBase64"
       THEN CASE outcome = "ok" ->
                   << Append(remotePhotos, PhotoRow(photo, c.arg.id)),
                      storage \cup {Blob(photo.storagePath, c.arg.id)} >>
              [] outcome = "null" /\ done ->
                   << remotePhotos, storage \cup {Blob(photo.storagePath, c.arg.id)} >>
              [] OTHER -> << remotePhotos, storage >>
       ELSE CASE outcome = "ok" ->
                   << SelectSeq(remotePhotos, LAMBDA r : r.id # old.id), RemoveBlobs(storage, oldPath) >>
              [] done -> << remotePhotos, RemoveBlobs(storage, oldPath) >>
              [] OTHER -> << remotePhotos, storage >>

\* the rest of handleAddPhoto and handleRemovePhoto, with the catch and finally
\* blocks of PhotoModal around them
PhotoCallSettled ==
    \E c \in calls, done \in BOOLEAN :
        /\ c.fn \in {"uploadPhotoBase64", "deletePhoto"}
        /\ \E outcome \in PhotoOutcomes(c.fn) :
            LET photoPatient == c.arg.row[1]
                photo == Photo("ph-" \o ToString(now), photoPatient.id \o "/" \o ToString(now) \o ".jpg")
                newPhotos == IF c.fn = "uploadPhotoBase64"
                             THEN Append(photoPatient.photos, photo)
                             ELSE [k \in 1..(Len(photoPatient.photos) - 1) |->
                                     photoPatient.photos[IF k < c.idx THEN k ELSE k + 1]]
                updated == updatePhotosInState(c.dept[1], photoPatient.id, newPhotos, c.arg.sub)
                next == ReplaceDept(departments, updated)
                store == PhotoStore(c, outcome, photo, done)
            IN /\ remotePhotos' = store[1]
               /\ storage' = store[2]
               /\ IF outcome = "ok"
                  THEN /\ departments' = next
                       /\ calls' = Settled(c) \cup {UpdateCall(c.op, "A", updated)}
                       /\ modal' = IF modal.kind = "photo" /\ modal.dept = c.dept[1].id
                                   THEN [modal EXCEPT !.item = << [photoPatient EXCEPT !.photos = newPhotos] >>]
                                   ELSE modal
                       /\ ops' = [ops EXCEPT ![c.op].N = << next, appointments >>,
                                             ![c.op].applied = TRUE,
                                             ![c.op].settledAtApply = 1,
                                             ![c.op].issued = @ + 1,
                                             ![c.op].okToasts = @ + (IF c.fn = "deletePhoto" THEN 1 ELSE 0)]
                       /\ now' = now + 1
                  ELSE /\ calls' = Settled(c)
                       /\ ops' = [ops EXCEPT
                             ![c.op].failed = @ + 1,
                             ![c.op].silentErr = @ + (IF outcome = "null" THEN 1 ELSE 0),
                             ![c.op].caught = (c.fn = "uploadPhotoBase64" /\ outcome = "reject"),
                             ![c.op].unhandled = @ + (IF c.fn = "deletePhoto" THEN 1 ELSE 0)]
                       /\ UNCHANGED << departments, modal >>
                       /\ now' = IF c.fn = "uploadPhotoBase64" /\ store[2] # storage
                                 THEN now + 1 ELSE now
        /\ UNCHANGED << loading, appointments, remotePatients, remoteAppts, aside >>

---------------------------------------------------------------------------

\* the Dashboard with its Departments tab open: the cards' operations
Next ==
    \/ LoadAll
    \/ UpdateDepartmentSettled
    \/ CloseModal
    \/ StatusChange
    \/ AddSubDept
    \/ OpenCardDialog
    \/ SavePatientForm
    \/ SortOrderSettled
    \/ SavePasienList
    \/ ConfirmDeletePatient
    \/ DeletePatientStep
    \/ CardCallSettled
    \/ Reorder
    \/ ReorderCallSettled
    \/ AddPhoto
    \/ RemovePhoto
    \/ PhotoCallSettled

\* the Dashboard's own operations on the department list, and its Appointments tab
NextDashboard ==
    \/ LoadAll
    \/ AddDepartment
    \/ DeleteDepartment
    \/ DashboardCallSettled
    \/ OpenApptForm
    \/ SubmitAppt
    \/ OpenApptDelete
    \/ ConfirmDeleteAppt
    \/ ToggleChecklist
    \/ ApptCallSettled
    \/ CloseModal

\* the Departments tab as a whole: the cards' operations together with the
\* Dashboard's add and delete of departments
NextDepartments ==
    \/ LoadAll
    \/ AddDepartment
    \/ DeleteDepartment
    \/ DashboardCallSettled
    \/ UpdateDepartmentSettled
    \/ CloseModal
    \/ StatusChange
    \/ AddSubDept
    \/ OpenCardDialog
    \/ SavePatientForm
    \/ SortOrderSettled
    \/ SavePasienList
    \/ ConfirmDeletePatient
    \/ DeletePatientStep
    \/ CardCallSettled
    \/ Reorder
    \/ ReorderCallSettled
    \/ AddPhoto
    \/ RemovePhoto
    \/ PhotoCallSettled

\* the service holding only rows the present code wrote
InitCards == Init /\ remotePatients[1] = P1Modern

Spec == InitCards /\ [][Next]_vars

SpecDashboard == Init /\ [][NextDashboard]_vars

SpecDepartments == InitCards /\ [][NextDepartments]_vars


---------------------------------------------------------------------------
(* The contract of the optimistic sync controller, over the recorded invocations *)

\* every remote call of invocation o has settled
AllSettled(o) == ops[o].issued > 0 /\ Pending(o) = {}

\* the operations the rollback contract names (the photo handlers are not among them)
ContractKinds ==
    { "addDepartment", "deleteDepartment", "addSubDept", "addRequirement", "editRequirement",
      "deleteRequirement", "savePasienList", "statusChange", "reorder",
      "addAppt", "editAppt", "deleteAppt", "toggleChecklist" }

\* every Patient record held in a department list
PatientsOf(depts) ==
    UNION { { depts[d].patients[i] : i \in DOMAIN depts[d].patients } \cup
            { FlatPatients(depts[d].subDepartments)[i] :
                i \in DOMAIN FlatPatients(depts[d].subDepartments) } : d \in DOMAIN depts }

\* the entity of that id in a local state << departments, appointments >>
Find(list, id) == SelectSeq(list, LAMBDA e : e.id = id)

EntityIn(state, id) ==
    << Find(state[1], id), Find(state[2], id), {p \in PatientsOf(state[1]) : p.id = id} >>

\* C1: an operation that ran alone from local state S and whose persistence
\* failed leaves, once all its calls have settled, the local state equal to S
\* and has emitted exactly one failure notification
C1_FailureRestoresSnapshot ==
    \A o \in DOMAIN ops :
        ( /\ Len(ops) = 1
          /\ ops[o].kind \in ContractKinds
          /\ ops[o].applied
          /\ AllSettled(o)
          /\ ops[o].failed > 0 )
        => (Local = ops[o].S /\ ops[o].errToasts = 1)

C3_DifferentEntitiesIndependent ==
    \A m1 \in DOMAIN ops, m2 \in DOMAIN ops :
        ( /\ Len(ops) = 2
          /\ m1 # m2
          /\ ops[m1].entity # ops[m2].entity
          /\ ops[m1].applied /\ AllSettled(m1) /\ ops[m1].caught
          /\ ops[m2].applied /\ AllSettled(m2) /\ ops[m2].failed = 0 )
        => EntityIn(Local, ops[m2].entity) = EntityIn(ops[m2].N, ops[m2].entity)

\* C4: when m2 on the same entity was applied while m1 was pending and
\* succeeds, and m1's call is rejected, m1's rollback puts the entity back as
\* it was in the snapshot taken before m1, and after both settled (nothing
\* else of m1 having failed) that is how the local state holds it
C4_SameEntityRace ==
    \A m1 \in DOMAIN ops, m2 \in DOMAIN ops :
        ( /\ m1 < m2
          /\ ops[m1].entity = ops[m2].entity
          /\ ops[m1].caught
          /\ m2 \in ops[m1].seenAtCatch )
        => /\ EntityIn(ops[m1].restored[1], ops[m1].entity) = EntityIn(ops[m1].S, ops[m1].entity)
           /\ (Len(ops) = 2 /\ AllSettled(m1) /\ AllSettled(m2)
                 /\ ops[m1].failed = 1 /\ ops[m2].failed = 0
                 => EntityIn(Local, ops[m1].entity) = EntityIn(ops[m1].S, ops[m1].entity))

\* the status of a requirement was changed and its patient list saved while
\* that call was pending; the save is stored remotely, the status change was
\* rejected, and the list shown is the one from before both
C4_Witness ==
    /\ Len(ops) = 2
    /\ ops[1].kind = "statusChange" /\ ops[2].kind = "savePasienList"
    /\ ops[1].entity = ops[2].entity
    /\ ops[1].caught /\ 2 \in ops[1].seenAtCatch /\ AllSettled(1) /\ ops[1].failed = 1
    /\ AllSettled(2) /\ ops[2].failed = 0
    /\ EntityIn(Local, ops[1].entity) = EntityIn(ops[1].S, ops[1].entity)
    /\ EntityIn(Local, ops[1].entity) # EntityIn(ops[2].N, ops[1].entity)
    /\ \E i \in DOMAIN remotePatients :
         /\ remotePatients[i].id = ops[2].entity
         /\ remotePatients[i].pasien_list = JsonStringify(ops[2].input[2])
         /\ \A p \in PatientsOf(departments) :
              p.id = ops[2].entity => p.pasienList # ops[2].input[2]

\* C5: no rejection leaves its handler, and every operation one of whose
\* calls was rejected has reported the failure (a failure notification, or
\* the error line of the photo dialog) and has put a snapshot back if it had
\* changed the local state
C5_NoRejectionEscapes ==
    \A o \in DOMAIN ops :
        /\ ops[o].unhandled = 0
        /\ (ops[o].failed > ops[o].silentErr =>
              /\ ops[o].errToasts > 0 \/ (ops[o].kind = "addPhoto" /\ ops[o].caught)
              /\ ops[o].applied => ops[o].rolledBackTo # << >>)

\* C6: no remote call is issued by the continuation of a rejected call
C6_NoCallAfterFailure ==
    \A o \in DOMAIN ops : ops[o].autoIssued = 0

\* C7: once its calls have settled, an operation has emitted a success
\* notification exactly when none of them was rejected
C7_SuccessToastIffSucceeded ==
    \A o \in DOMAIN ops :
        (ops[o].kind \in ContractKinds /\ AllSettled(o))
        => /\ (ops[o].applied /\ ops[o].failed = 0 => ops[o].okToasts = 1)
           /\ (ops[o].failed > 0 => ops[o].okToasts = 0)

\* C8: an operation applies `next` before it awaits anything: it has applied
\* as soon as it has issued a call, and none of its calls had settled by then
C8_ApplyBeforeAnyCallSettles ==
    \A o \in DOMAIN ops :
        /\ (ops[o].issued > 0 => ops[o].applied)
        /\ ops[o].settledAtApply = 0

\* C9: every Patient in local state has namaPasien/nomorTelp of its first
\* entry, or both empty when it has no entry
C9_LegacyFieldsFollowFirstEntry ==
    \A p \in PatientsOf(departments) :
        /\ p.namaPasien = FirstNama(p.pasienList)
        /\ p.nomorTelp = FirstTelp(p.pasienList)

C11_PatientsInOnePlace ==
    \A d \in DOMAIN departments :
        IF departments[d].hasSubDepartments
        THEN departments[d].patients = << >>
        ELSE FlatPatients(departments[d].subDepartments) = << >>

\* a requirement was added inside a sub-department of a department that
\* holds none directly, and another operation has been rolled back
C11_Witness ==
    /\ \E o \in DOMAIN ops : ops[o].kind = "addRequirement" /\ ops[o].applied
                              /\ \E d \in DOMAIN departments :
                                    /\ departments[d].hasSubDepartments
                                    /\ departments[d].patients = << >>
                                    /\ \E i \in DOMAIN FlatPatients(departments[d].subDepartments) :
                                          FlatPatients(departments[d].subDepartments)[i].id = ops[o].entity
    /\ \E o \in DOMAIN ops : ops[o].caught

\* deletePatient(id) of invocation o has run to its end without rejecting
DeleteCompleted(o) ==
    /\ ops[o].kind = "deleteRequirement"
    /\ ops[o].steps # << >>
    /\ ops[o].steps[Len(ops[o].steps)][1] = "deletePatientRow"
    /\ ops[o].steps[Len(ops[o].steps)][2] # "reject"

\* C12: once deletePatient(id) has completed without rejecting, the service
\* holds no blob and no photo row of patient id, and every photo row names a
\* patient row that exists
C12_NoOrphanPhotos ==
    /\ \A o \in DOMAIN ops :
          DeleteCompleted(o) =>
              /\ \A b \in storage : b.folder # ops[o].entity
              /\ \A i \in DOMAIN remotePhotos : remotePhotos[i].patient_id # ops[o].entity
    /\ \A i \in DOMAIN remotePhotos :
          \E j \in DOMAIN remotePatients : remotePatients[j].id = remotePhotos[i].patient_id

\* the steps of deletePatient invocation o ran, by name and by outcome
Ran(o, step) == \E i \in DOMAIN ops[o].steps : ops[o].steps[i][1] = step

Failed(o, step) ==
    \E i \in DOMAIN ops[o].steps :
        ops[o].steps[i][1] = step /\ ops[o].steps[i][2] \in {"error", "reject"}

\* deletePatient of invocation o has settled, and how
DeleteSettled(o) ==
    /\ ops[o].kind = "deleteRequirement"
    /\ \A c \in Pending(o) : c.fn # "deletePatient"

DeleteRejected(o) ==
    ops[o].steps # << >> /\ ops[o].steps[Len(ops[o].steps)][2] = "reject"

\* C13, the order: the blobs are removed before the patient row is deleted
C13_BlobsBeforeRow ==
    \A o \in DOMAIN ops :
        \A i, j \in DOMAIN ops[o].steps :
            (ops[o].steps[i][1] = "removeBlobs" /\ ops[o].steps[j][1] = "deletePatientRow") => i < j

\* C13, best effort: a delete whose blob removal failed has still attempted
\* the delete of the patient row
C13_FailedRemovalDoesNotBlock ==
    \A o \in DOMAIN ops :
        (DeleteSettled(o) /\ Failed(o, "removeBlobs")) => Ran(o, "deletePatientRow")

\* C13, the rollback: once every call of the delete has settled, the local
\* state has been rolled back exactly when deletePatient rejected
C13_RollbackIffRejected ==
    \A o \in DOMAIN ops :
        (ops[o].kind = "deleteRequirement" /\ AllSettled(o))
        => (ops[o].rolledBackTo # << >> <=> DeleteRejected(o))

\* C13: a requirement delete removes the photo blobs before the patient
\* row, a failed blob removal does not keep the patient row delete from
\* being attempted, and the local state is rolled back exactly when the
\* delete call rejects
C13_BestEffortDelete ==
    /\ C13_BlobsBeforeRow
    /\ C13_FailedRemovalDoesNotBlock
    /\ C13_RollbackIffRejected

---------------------------------------------------------------------------
(* The weekly-slot codec on its own: a booking is serialised and parsed    *)
(* back, a raw cell value is parsed                                        *)

\* the longest raw cell value that is tried character by character
MaxRawLen == 5

\* the texts a field of a booking is drawn from
SlotTexts ==
    { << >>, << "A" >>, << "\"" >>, << "\\" >>, << "a", " ", "-", " ", "b" >> }

\* WeeklySlotData values
Bookings == [n : SlotTexts, t : SlotTexts, d : SlotTexts, pid : SlotTexts]

RawChars == {"a", " ", "-", "1", "\""}

\* raw cell values: every text over RawChars up to MaxRawLen, and some longer ones
RawTexts ==
    UNION { [1..k -> RawChars] : k \in 0..MaxRawLen }
    \cup { ISTIRAHAT,
           << "J", "a", "n", "e", " ", "-", " ", "2", "0", "2", "4", "-", "0", "1", "-", "0", "1" >>,
           << "a", " ", "-", " ", "b", " ", "-", " ", "c" >>,
           << "{", "\"", "n", "\"", ":", "1", "}" >>,
           << "{", "\"", "a", "\"", ":", "1", "}" >>,
           << "{", "\"", "n", "\"", ":", "1" >>,
           << "[", "1", "]" >>,
           << "n", "u", "l", "l" >>,
           << "t", "r", "u", "e", " ", "-", " ", "1" >> }

InitCodec ==
    /\ InitDash /\ remotePatients[1] = P1Modern
    /\ PlannerIdle /\ CelebrationIdle /\ PhotoModalIdle /\ TableIdle /\ HomeIdle
    /\ codec \in { [stage |-> "booking", booking |-> << x >>, raw |-> << >>, out |-> << >>] :
                      x \in Bookings }
               \cup { [stage |-> "raw", booking |-> << >>, raw |-> r, out |-> << >>] :
                         r \in RawTexts }

\* valueToSave = serializeSlotData(data)
SerializeSlot ==
    /\ codec.stage = "booking"
    /\ codec' = [codec EXCEPT !.stage = "raw", !.raw = serializeSlotData(codec.booking[1])]
    /\ UNCHANGED << dash, planner, celebration, photoModal, patientTable, home >>

\* parsed = parseSlotValue(raw)
ParseSlot ==
    /\ codec.stage = "raw"
    /\ codec' = [codec EXCEPT !.stage = "parsed", !.out = << parseSlotValue(codec.raw) >>]
    /\ UNCHANGED << dash, planner, celebration, photoModal, patientTable, home >>

NextCodec ==
    \/ SerializeSlot
    \/ ParseSlot

SpecCodec == InitCodec /\ [][NextCodec]_vars

\* C14: a booking that was serialised and parsed comes back field by
\* field; the break sentinel parses to the break sentinel, the empty text
\* to the empty value
C14_CodecRoundTrip ==
    codec.stage = "parsed" =>
        /\ codec.booking # << >> =>
              LET x == codec.booking[1]
                  out == codec.out[1]
              IN /\ out.kind = "data"
                 /\ Get(out.data, << "n" >>) = JString(x.n)
                 /\ Get(out.data, << "t" >>) = JString(x.t)
                 /\ Get(out.data, << "d" >>) = JString(x.d)
                 /\ Get(out.data, << "p", "i", "d" >>) = JString(x.pid)
        /\ codec.raw = ISTIRAHAT => codec.out[1] = SlotBreak
        /\ codec.raw = << >> => codec.out[1] = SlotEmpty

\* a booking whose name is a double quote and whose department holds the
\* legacy separator has gone through the codec and come back
C14_Witness ==
    /\ codec.stage = "parsed"
    /\ codec.booking # << >>
    /\ codec.booking[1].n = << "\"" >>
    /\ codec.booking[1].t = << "\\" >>
    /\ codec.booking[1].d = << "a", " ", "-", " ", "b" >>
    /\ codec.out[1].kind = "data"
    /\ Get(codec.out[1].data, << "n" >>) = JString(<< "\"" >>)

\* the legacy separator, the places where a text holds it, and the least of a set
LegacySep == << " ", "-", " " >>
SepAt(val) == { i \in 1..(Len(val) - 2) : SubSeq(val, i, i + 2) = LegacySep }
Least(S) == CHOOSE x \in S : \A y \in S : x <= y

\* the text before the first separator (the whole text if there is none)
BeforeFirstSep(val) ==
    IF SepAt(val) = {} THEN val ELSE SubSeq(val, 1, Least(SepAt(val)) - 1)

\* the text between the first separator and the next one after it, or the
\* end; empty if there is no separator
AfterFirstSep(val) ==
    IF SepAt(val) = {} THEN << >>
    ELSE LET first == Least(SepAt(val))
             later == { j \in SepAt(val) : j >= first + 3 }
         IN IF later = {} THEN SubSeq(val, first + 3, Len(val))
            ELSE SubSeq(val, first + 3, Least(later) - 1)

\* C15: a raw value that is not blank, not the break sentinel and not valid
\* JSON parses to the legacy booking: n the text before the first " - " (the
\* whole value if that text is empty), d the text up to the next " - ", t
\* and pid empty
C15_LegacyFallback ==
    ( /\ codec.stage = "parsed"
      /\ codec.booking = << >>
      /\ ~IsBlank(codec.raw)
      /\ codec.raw # ISTIRAHAT
      /\ ~JsonParse(codec.raw).ok )
    => LET out == codec.out[1]
           before == BeforeFirstSep(codec.raw)
       IN /\ out.kind = "data"
          /\ Get(out.data, << "n" >>) = JString(IF before = << >> THEN codec.raw ELSE before)
          /\ Get(out.data, << "d" >>) = JString(AfterFirstSep(codec.raw))
          /\ Get(out.data, << "t" >>) = JString(<< >>)
          /\ Get(out.data, << "p", "i", "d" >>) = JString(<< >>)

\* "Jane - 2024-01-01" has been parsed to n = "Jane", d = "2024-01-01"
C15_Witness ==
    /\ codec.stage = "parsed"
    /\ codec.raw = << "J", "a", "n", "e", " ", "-", " ", "2", "0", "2", "4", "-", "0", "1", "-", "0", "1" >>
    /\ ~JsonParse(codec.raw).ok
    /\ Get(codec.out[1].data, << "n" >>) = JString(<< "J", "a", "n", "e" >>)
    /\ Get(codec.out[1].data, << "d" >>) = JString(<< "2", "0", "2", "4", "-", "0", "1", "-", "0", "1" >>)
    /\ Get(codec.out[1].data, << "t" >>) = JString(<< >>)


---------------------------------------------------------------------------
(* The weekly planner on its own, from the default weekly template *)

InitPlanner ==
    /\ InitDash /\ remotePatients[1] = P1Modern
    /\ CodecIdle /\ CelebrationIdle /\ PhotoModalIdle /\ TableIdle /\ HomeIdle
    /\ planner = PlannerMounted

NextPlanner ==
    \/ ShiftWeek
    \/ OpenSlot
    \/ CloseSlot
    \/ SetInputMode
    \/ SelectDept
    \/ SelectPatient
    \/ TypeManual
    \/ HandleSave
    \/ HandleClear
    \/ SlotCallSettled

SpecPlanner == InitPlanner /\ [][NextPlanner]_vars

\* the three shapes of a day cell: "", the break sentinel, or the JSON text
\* of an object that has the key n
ObjectWithName(r) == r.ok /\ r.val.type = "object" /\ HasKey(r.val, << "n" >>)

CellShape(cell) ==
    \/ cell = << >>
    \/ cell = ISTIRAHAT
    \/ ObjectWithName(JsonParse(cell))

\* C16: from the default weekly template, after any saves, clears and
\* rollbacks, every day cell of the local slots and every day cell of a slot
\* passed to upsertWeeklySlot is "", "ISTIRAHAT" or the JSON text of an
\* object with the key n
C16_CellShapes ==
    /\ \A i \in DOMAIN planner.slots, day \in DAYS : CellShape(planner.slots[i][day])
    /\ \A target \in planner.upserts : \A day \in DAYS : CellShape(target[day])

\* a booking typed by hand was saved into the Monday cell, with its name and
\* phone trimmed; then clearing the cell failed and was rolled back
C16_Witness ==
    /\ planner.toast = SlotSaveFailed
    /\ planner.call = << >>
    /\ planner.slots[1].senin = serializeSlotData([n |-> << "A", "\"" >>, t |-> << "0" >>,
                                                    d |-> << >>, pid |-> << >>])
    /\ \E target \in planner.upserts : target.id = "w4" /\ target.senin = << >>

---------------------------------------------------------------------------
(* The position writes of a reorder and its rollback *)

\* the list a reorder works on, in a local state << departments, appointments >>
ReorderList(o, state) ==
    LET hit == Find(state[1], ops[o].entity)
    IN IF hit = << >> THEN << >> ELSE TargetPatients(hit[1], ops[o].input[1])

\* the position writes of a reorder that are pending, as << id, position >>
PendingWrites(o) == { << c.arg.id, c.idx >> : c \in {x \in Pending(o) : x.tag = "B"} }

\* C18: a reorder issues exactly one position write per requirement of the
\* new order, each with the requirement's index (counted from 1) as its
\* position; its catch block runs exactly when one of these writes was
\* rejected, and leaves the list in the order it had before the drag,
\* however many of the other writes had resolved
C18_ReorderWritesAndRollback ==
    \A o \in DOMAIN ops :
        ops[o].kind = "reorder" =>
            LET before == ReorderList(o, ops[o].S)
                newList == ReorderList(o, ops[o].N)
            IN /\ PendingWrites(o) \cup { << w[1], w[2] >> : w \in ops[o].writes }
                    = { << newList[i].id, i >> : i \in DOMAIN newList }
               /\ ops[o].caught <=> (\E w \in ops[o].writes : ~w[3])
               /\ ops[o].caught => ReorderList(o, ops[o].restored[1]) = before

\* a reorder of three requirements whose first position write resolved,
\* whose second was rejected and whose third is still pending: the list is
\* back in the order before the drag, and the write that resolved carries a
\* position that is not the requirement's place in the list
C18_Witness ==
    \E o \in DOMAIN ops :
        /\ ops[o].kind = "reorder"
        /\ ops[o].caught
        /\ Len(ReorderList(o, ops[o].S)) = 3
        /\ ReorderList(o, Local) = ReorderList(o, ops[o].S)
        /\ \E w \in ops[o].writes :
              /\ w[3]
              /\ ReorderList(o, Local)[w[2]].id # w[1]
        /\ PendingWrites(o) # {}

---------------------------------------------------------------------------
(* A drag over the rows of one PatientTable, and its drop *)

\* the ids of the rows, and the longest list that is dragged over
RowIds == {"A", "B", "C", "D"}
MaxRows == 4

\* the lists a patientTable renders: rows with different ids
RowLists ==
    { [i \in DOMAIN s |-> [id |-> s[i]]] :
        s \in { t \in UNION { [1..k -> RowIds] : k \in 1..MaxRows } :
                  \A i, j \in DOMAIN t : i # j => t[i] # t[j] } }

\* a row is being dragged: active is a row of the list, over is a row of
\* the list or, outside any row, null
InitDrag ==
    /\ InitDash /\ remotePatients[1] = P1Modern
    /\ CodecIdle /\ PlannerIdle /\ CelebrationIdle /\ PhotoModalIdle /\ HomeIdle
    /\ \E patients \in RowLists :
       \E a \in DOMAIN patients, over \in {patients[i].id : i \in DOMAIN patients} \cup {Null} :
          patientTable = [patients |-> patients, active |-> patients[a].id, over |-> over,
                          stage |-> "dragging", onReorder |-> << >>, writes |-> {}]

\* onDragEnd={handleDragEnd}, and the position writes of the
\* handleReorderPatients that onReorder runs
DragEnd ==
    /\ patientTable.stage = "dragging"
    /\ LET reordered == handleDragEnd(patientTable.patients, patientTable.active, patientTable.over)
       IN patientTable' = [patientTable EXCEPT
                      !.stage = "dropped",
                      !.onReorder = reordered,
                      !.writes = IF reordered = << >> THEN {}
                                 ELSE { << c.arg.id, c.idx >> :
                                          c \in PositionWrites(1, Null, reordered[1], 1) }]
    /\ UNCHANGED << dash, codec, planner, celebration, photoModal, home >>

SpecDrag == InitDrag /\ [][DragEnd]_vars

\* a list without its k-th element
Without(list, k) == SubSeq(list, 1, k - 1) \o SubSeq(list, k + 1, Len(list))

\* C17: a row picked at index i and dropped over the row at index j # i
\* gives the list in which that row is at index j and the other rows are in
\* the order they had; a drop on the row itself or outside any row hands
\* nothing to onReorder and issues no position write
C17_DragMovesRow ==
    patientTable.stage = "dropped" =>
        LET p == patientTable.patients
            i == CHOOSE k \in DOMAIN p : p[k].id = patientTable.active
        IN IF patientTable.over # Null /\ patientTable.over # patientTable.active
           THEN LET j == CHOOSE k \in DOMAIN p : p[k].id = patientTable.over
                IN /\ Len(patientTable.onReorder) = 1
                   /\ Len(patientTable.onReorder[1]) = Len(p)
                   /\ patientTable.onReorder[1][j] = p[i]
                   /\ Without(patientTable.onReorder[1], j) = Without(p, i)
           ELSE /\ patientTable.onReorder = << >>
                /\ patientTable.writes = {}

\* [A, B, C] with C dropped on A gave [C, A, B]
C17_Witness ==
    /\ patientTable.stage = "dropped"
    /\ patientTable.patients = << [id |-> "A"], [id |-> "B"], [id |-> "C"] >>
    /\ patientTable.active = "C" /\ patientTable.over = "A"
    /\ patientTable.onReorder = << << [id |-> "C"], [id |-> "A"], [id |-> "B"] >> >>

---------------------------------------------------------------------------
(* src/components/department-card.tsx: the completion effect of a card    *)
(*                                                                         *)
(* `celebration` holds what the effect reads and writes: allPatients of    *)
(* the department prop (their statuses), the dependencies React compared   *)
(* at the last run, prevProgressRef, celebrationOpen; and, to state the    *)
(* claim, the progress of the render before this one and whether the       *)
(* effect of this render called setCelebrationOpen(true).                  *)

\* how many requirements the department of the card holds at most
MaxReqs == 3

\* STATUS_WEIGHT
STATUS_WEIGHT(status) ==
    (CHOOSE i \in DOMAIN STATUS_OPTIONS : STATUS_OPTIONS[i] = status) - 1

RECURSIVE SumWeights(_)
SumWeights(statuses) ==
    IF statuses = << >> THEN 0 ELSE STATUS_WEIGHT(Head(statuses)) + SumWeights(Tail(statuses))

\* Math.round(x) for x = num / den >= 0
Round(num, den) == (2 * num + den) \div (2 * den)

\* num / den is k + 0.5 for a whole k
IsTie(num, den) == (2 * num) % den = 0 /\ ((2 * num) \div den) % 2 = 1

\* the whole k below 100 for which the double ((2k + 1) / 200) * 100 is less
\* than k + 0.5, so that Math.round gives k; for every other k the double is
\* k + 0.5 or more
TiesBelow == {14, 28, 56, 57}

\* Math.round((sum / den) * 100) in double arithmetic, for 0 <= sum <= den:
\* away from a tie the double and the quotient round alike
RoundPercent(sum, den) ==
    IF IsTie(sum * 100, den) /\ (Round(sum * 100, den) - 1) \in TiesBelow
    THEN Round(sum * 100, den) - 1
    ELSE Round(sum * 100, den)

\* calcWeightedProgress(patients), on the statuses of the patients
calcWeightedProgress(statuses) ==
    IF Len(statuses) = 0 THEN 0
    ELSE RoundPercent(SumWeights(statuses), Len(statuses) * 5)

\* the statuses of allPatients, for every department of up to MaxReqs requirements
StatusLists ==
    UNION { [1..k -> {STATUS_OPTIONS[i] : i \in DOMAIN STATUS_OPTIONS}] : k \in 0..MaxReqs }

\* a mutation of the effect's condition: the first render is not told apart
CelebrateOnMount(totalPatients, weightedProgress, prev) ==
    totalPatients > 0 /\ weightedProgress = 100 /\ prev # 100

\* the condition of the effect
Celebrate(totalPatients, weightedProgress, prev) ==
    /\ totalPatients > 0
    /\ weightedProgress = 100
    /\ prev # 100
    /\ prev # -1

\* the card is mounted with a department; its first render is done and its
\* effects have not run yet
InitCelebration ==
    /\ InitDash /\ remotePatients[1] = P1Modern
    /\ CodecIdle /\ PlannerIdle /\ PhotoModalIdle /\ TableIdle /\ HomeIdle
    /\ \E statuses \in StatusLists :
          celebration = [allPatients |-> statuses, stage |-> "rendered",
                         deps |-> << >>, prevProgressRef |-> -1,
                         celebrationOpen |-> FALSE,
                         before |-> << >>, openedNow |-> FALSE]

\* the card renders again: with a new department prop (any mutation, a
\* rollback, a reload) or with the same one
RenderCard ==
    /\ celebration.stage = "idle"
    /\ \E statuses \in StatusLists :
          celebration' = [celebration EXCEPT
                            !.allPatients = statuses, !.stage = "rendered",
                            !.before = << calcWeightedProgress(celebration.allPatients) >>,
                            !.openedNow = FALSE]
    /\ UNCHANGED << dash, codec, planner, photoModal, patientTable, home >>

\* useEffect(..., [weightedProgress, totalPatients]) after a render: the
\* body runs after the first render and whenever a dependency has changed
CelebrationEffect ==
    /\ celebration.stage = "rendered"
    /\ LET totalPatients == Len(celebration.allPatients)
           weightedProgress == calcWeightedProgress(celebration.allPatients)
           deps == << weightedProgress, totalPatients >>
       IN IF celebration.deps = deps
          THEN celebration' = [celebration EXCEPT !.stage = "idle"]
          ELSE IF Celebrate(totalPatients, weightedProgress, celebration.prevProgressRef)
          THEN celebration' = [celebration EXCEPT
                                 !.stage = "idle", !.deps = deps,
                                 !.celebrationOpen = TRUE, !.openedNow = TRUE,
                                 !.prevProgressRef = weightedProgress]
          ELSE celebration' = [celebration EXCEPT
                                 !.stage = "idle", !.deps = deps,
                                 !.prevProgressRef = weightedProgress]
    /\ UNCHANGED << dash, codec, planner, photoModal, patientTable, home >>

\* CelebrationModal onClose: setCelebrationOpen(false)
CloseCelebration ==
    /\ celebration.stage = "idle"
    /\ celebration.celebrationOpen
    /\ celebration' = [celebration EXCEPT !.celebrationOpen = FALSE]
    /\ UNCHANGED << dash, codec, planner, photoModal, patientTable, home >>

NextCelebration ==
    \/ RenderCard
    \/ CelebrationEffect
    \/ CloseCelebration

SpecCelebration == InitCelebration /\ [][NextCelebration]_vars

\* C19: once the effects of a render have run, the celebration was opened
\* by that render exactly if it is not the first render, the progress of
\* the render before was not 100, the progress now is 100 and the
\* department holds at least one requirement
C19_CelebrateOnCrossing ==
    celebration.stage = "idle" =>
        ( celebration.openedNow <=>
            /\ celebration.before # << >>
            /\ celebration.before[1] # 100
            /\ calcWeightedProgress(celebration.allPatients) = 100
            /\ Len(celebration.allPatients) > 0 )

\* two requirements, the progress of the last render was below 100, both
\* are now "Selesai", and the effect has opened the celebration
C19_Witness ==
    /\ celebration.stage = "idle"
    /\ celebration.openedNow
    /\ celebration.allPatients = << "Selesai", "Selesai" >>
    /\ celebration.before = << 90 >>

---------------------------------------------------------------------------
(* src/components/photo-modal.tsx: PhotoModal, adding a photo              *)
(*                                                                         *)
(* `photoModal` holds the state of the dialog (uploading, sizeError), the  *)
(* file picker, the FileReader and the onAddPhoto call it waits for, the   *)
(* photos prop as a count, and what was handed on: how many files were     *)
(* picked, the last one's size, and the sizes onAddPhoto was invoked with. *)

MAX_FILE_SIZE_MB == 5
MAX_FILE_SIZE_BYTES == MAX_FILE_SIZE_MB * 1024 * 1024

\* how many files are picked
MaxPicks == 3

\* file.size of the files picked
FileSizes ==
    { 1, MAX_FILE_SIZE_BYTES - 1, MAX_FILE_SIZE_BYTES, MAX_FILE_SIZE_BYTES + 1,
      2 * MAX_FILE_SIZE_BYTES }

\* what sizeError shows
SizeExceeded == "Ukuran foto melebihi batas 5 MB"
SizeMaximum == "Ukuran foto maksimum 5 MB"
UploadFailed == "Gagal mengunggah foto"

\* a mutation of the guard: a file of exactly the limit is turned away too
AtLeastLimit(size) == size >= MAX_FILE_SIZE_BYTES

\* `file.size > MAX_FILE_SIZE_BYTES`
OverLimit(size) == size > MAX_FILE_SIZE_BYTES

\* the dialog is open on a requirement that holds no photo or one photo
InitPhotoModal ==
    /\ InitDash /\ remotePatients[1] = P1Modern
    /\ CodecIdle /\ PlannerIdle /\ CelebrationIdle /\ TableIdle /\ HomeIdle
    /\ \E n \in 0..1 :
          photoModal = [photos |-> n, uploading |-> FALSE, sizeError |-> "",
                        picker |-> FALSE, reading |-> << >>, call |-> << >>,
                        picks |-> 0, file |-> << >>, invokedWith |-> {}]

\* triggerFileInput, from a button that is disabled while uploading
TriggerFileInput ==
    /\ ~photoModal.uploading
    /\ ~photoModal.picker
    /\ photoModal.picks < MaxPicks
    /\ photoModal' = [photoModal EXCEPT !.sizeError = "", !.picker = TRUE]
    /\ UNCHANGED << dash, codec, planner, celebration, patientTable, home >>

\* the file picker is dismissed: no change event
CancelPicker ==
    /\ photoModal.picker
    /\ photoModal' = [photoModal EXCEPT !.picker = FALSE]
    /\ UNCHANGED << dash, codec, planner, celebration, patientTable, home >>

\* handleFileChange(e) with a file
HandleFileChange ==
    /\ photoModal.picker
    /\ \E size \in FileSizes :
          photoModal' =
             IF OverLimit(size)
             THEN [photoModal EXCEPT !.picker = FALSE, !.picks = @ + 1, !.file = << size >>,
                                     !.sizeError = SizeExceeded]
             ELSE [photoModal EXCEPT !.picker = FALSE, !.picks = @ + 1, !.file = << size >>,
                                     !.sizeError = "", !.uploading = TRUE,
                                     !.reading = << size >>]
    /\ UNCHANGED << dash, codec, planner, celebration, patientTable, home >>

\* reader.onloadend: onAddPhoto(reader.result) is invoked
ReaderLoadEnd ==
    /\ photoModal.reading # << >>
    /\ photoModal' = [photoModal EXCEPT !.reading = << >>, !.call = photoModal.reading,
                                        !.invokedWith = @ \cup {photoModal.reading[1]}]
    /\ UNCHANGED << dash, codec, planner, celebration, patientTable, home >>

\* what awaiting onAddPhoto gives: handleAddPhoto with the photo
\* uploadPhotoBase64 returned, with null, or a rejection; uploadPhotoBase64
\* throws for a blob over 5 * 1024 * 1024 bytes
AddPhotoOutcomes(size) ==
    IF size > 5 * 1024 * 1024 THEN {SizeMaximum} ELSE {"photo", "null", UploadFailed}

\* the rest of reader.onloadend: catch and finally
AddPhotoSettled ==
    /\ photoModal.call # << >>
    /\ \E outcome \in AddPhotoOutcomes(photoModal.call[1]) :
          photoModal' =
             [photoModal EXCEPT
                !.call = << >>, !.uploading = FALSE,
                !.photos = IF outcome = "photo" THEN @ + 1 ELSE @,
                !.sizeError = IF outcome \in {"photo", "null"} THEN @ ELSE outcome]
    /\ UNCHANGED << dash, codec, planner, celebration, patientTable, home >>

NextPhotoModal ==
    \/ TriggerFileInput
    \/ CancelPicker
    \/ HandleFileChange
    \/ ReaderLoadEnd
    \/ AddPhotoSettled

SpecPhotoModal == InitPhotoModal /\ [][NextPhotoModal]_vars

\* C20: picking a file of more than 5 * 1024 * 1024 bytes leaves the
\* uploading flag false, starts no read and no onAddPhoto call, leaves the
\* photos as they are and shows a size error; picking a file of at most
\* that size starts the upload; and onAddPhoto is never invoked with more
\* than 5 * 1024 * 1024 bytes
C20_SizeGuard ==
    /\ [](\A size \in photoModal.invokedWith : size <= 5 * 1024 * 1024)
    /\ [][ photoModal'.picks # photoModal.picks =>
             IF photoModal'.file[1] > 5 * 1024 * 1024
             THEN /\ ~photoModal.uploading /\ ~photoModal'.uploading
                  /\ photoModal'.reading = << >> /\ photoModal'.call = << >>
                  /\ photoModal'.invokedWith = photoModal.invokedWith
                  /\ photoModal'.photos = photoModal.photos
                  /\ photoModal'.sizeError # ""
             ELSE /\ photoModal'.uploading
                  /\ photoModal'.reading = photoModal'.file
                  /\ photoModal'.sizeError = "" ]_vars

\* a file of exactly 5 MB went through to onAddPhoto and became a photo;
\* then a file of 5 MB + 1 byte was picked: the size error is shown, nothing
\* is uploading and onAddPhoto was invoked with the first file only
C20_Witness ==
    /\ photoModal.file = << 5 * 1024 * 1024 + 1 >>
    /\ photoModal.sizeError = SizeExceeded
    /\ ~photoModal.uploading
    /\ photoModal.invokedWith = {5 * 1024 * 1024}
    /\ photoModal.photos = 1
    /\ photoModal.picks = 2

---------------------------------------------------------------------------
(* Validation of the planner's save *)

\* the name of the booking a cell text holds
BookingName(cell) == FieldText(parseSlotValue(cell).data, << "n" >>)

\* C21: a weekly-slot save whose booking name would be empty issues no
\* persistence call: the cell written by a call of handleSave that is in
\* flight holds a booking with a non-empty name
C21_EmptyNameBlocked ==
    (planner.call # << >> /\ planner.handler = "handleSave") =>
        /\ parseSlotValue(planner.call[1].target[planner.editDay]) \notin {SlotEmpty, SlotBreak}
        /\ Trim(BookingName(planner.call[1].target[planner.editDay])) # << >>

\* C24: while the viewed week is not the current week no cell is open for
\* editing, nothing is being saved and no call is in flight; the slots and
\* the calls made change only while the current week is viewed; and a call
\* in flight carries the key of the current week and a row of the current
\* week's slot list
C24_OtherWeeksReadOnly ==
    /\ [](~isCurrentWeek =>
            (~planner.slotOpen /\ ~planner.saving /\ planner.call = << >>))
    /\ [](planner.call # << >> =>
            /\ planner.call[1].weekKey = currentWeekKey
            /\ \E i \in DOMAIN planner.slots : planner.slots[i] = planner.call[1].target)
    /\ [][(planner'.slots # planner.slots \/ planner'.upserts # planner.upserts
            \/ planner'.slotOpen # planner.slotOpen) =>
             (isCurrentWeek /\ planner'.weekOffset = planner.weekOffset)]_vars

\* a booking was saved in the current week and the next week is viewed
C24_Witness ==
    /\ planner.weekOffset = 1
    /\ planner.toast = SlotSaved
    /\ planner.slots[1].senin # << >>
    /\ planner.upserts # {}

\* C27: at most one call of the edit dialog is in flight, and the saving
\* flag is set exactly while one is, so it is false again once the attempt
\* has ended; while saving no call is started (save and clear do nothing)
\* and the dialog stays open until the call settles
C27_OneSlotCallAtATime ==
    /\ [](Len(planner.call) <= 1)
    /\ [](planner.saving <=> planner.call # << >>)
    /\ [](planner.saving => planner.slotOpen)
    /\ [][planner.saving =>
             /\ planner'.upserts = planner.upserts
             /\ \/ (planner'.call = planner.call /\ planner'.saving /\ planner'.slotOpen)
                \/ (planner'.call = << >> /\ ~planner'.saving)]_vars

\* a save failed and was rolled back: the dialog is still open and no
\* longer locked; a second attempt has been made from it and is in flight
C27_Witness ==
    /\ planner.writes = 2
    /\ planner.slotOpen /\ planner.saving
    /\ Len(planner.call) = 1
    /\ planner.toast = SlotSaveFailed

\* C28: after any opens, saves, clears and rollbacks a cell of the local
\* slots holds the break sentinel exactly if it held it in the template the
\* planner started from, no call rewrote a break cell, and the cell that is
\* open for editing is not a break cell
C28_BreakCellsStay ==
    /\ \A i \in DOMAIN planner.slots, day \in DAYS :
          planner.slots[i][day] = ISTIRAHAT <=> DEFAULT_WEEKLY[i][day] = ISTIRAHAT
    /\ \A target \in planner.upserts : \A i \in DOMAIN DEFAULT_WEEKLY, day \in DAYS :
          DEFAULT_WEEKLY[i].id = target.id =>
             (target[day] = ISTIRAHAT <=> DEFAULT_WEEKLY[i][day] = ISTIRAHAT)
    /\ planner.slotOpen =>
          \A i \in DOMAIN planner.slots :
             planner.slots[i].id = planner.editSlotId =>
                DEFAULT_WEEKLY[i][planner.editDay] # ISTIRAHAT

\* a booking was saved and then cleared again: every cell is as in the
\* template, the break row included
C28_Witness ==
    /\ planner.toast = SlotCleared
    /\ planner.writes = 2
    /\ planner.call = << >>
    /\ planner.slots = DEFAULT_WEEKLY

---------------------------------------------------------------------------
(* src/app/page.tsx: Home, the session of the day; LoginForm *)

\* the days the clock of the browser goes through; getTodayString() is the
\* text of the day
MaxDay == 2
DayText(day) == << "2", "0", "2", "4", "-", "0", "1", "-", "0", ToString(day) >>

\* what the user types into the password fields, and the password the row of
\* admin_auth holds at first
AdminPw == << "a", "d", "m", "i", "n", "1" >>
ShortPw == << "s", "e", "c", "r", "e" >>
LongPw == << "s", "e", "c", "r", "e", "t" >>
Passwords == { AdminPw, ShortPw, LongPw }

\* bcryptjs.hash(password, 10) and bcryptjs.compare(password, hash)
BcryptHash(password) == << "$", "2", "a", "$", "1", "0", "$" >> \o password
BcryptCompare(password, hash) == hash = BcryptHash(password)

\* how many login and password-change attempts a behaviour holds
MaxAttempts == 2

\* JSON.stringify({ loggedIn: true, date })
StringifySession(date) ==
    << "{" >> \o Quote(<< "l", "o", "g", "g", "e", "d", "I", "n" >>) \o << ":", "t", "r", "u", "e" >>
    \o << "," >> \o Quote(<< "d", "a", "t", "e" >>) \o << ":" >> \o Quote(date)
    \o << "}" >>

\* a parsed value as a condition
Truthy(v) ==
    CASE v.type = "undefined" -> FALSE
      [] v.type = "literal" -> v.s = << "t", "r", "u", "e" >>
      [] v.type = "string" -> v.s # << >>
      [] v.type = "number" ->
            \E i \in DOMAIN v.s :
               /\ v.s[i] \in Digit \ {"0"}
               /\ \A j \in 1..i : v.s[j] \notin {"e", "E"}
      [] OTHER -> TRUE

\* the try block of getStoredSession: JSON.parse(raw), null where it throws
ParsedSession(r) == IF r.ok THEN r.val ELSE Undefined

\* getStoredSession(); stored is << >> when the key is absent
getStoredSession(stored) ==
    IF stored = << >> \/ stored[1] = << >> THEN Undefined
    ELSE ParsedSession(JsonParse(stored[1]))

\* Home, LoginForm and the password fields of SettingsModal after
\* construction, over what the browser stored and what the service holds
HomeLoaded(stored, today, adminRows, attempts, changes) ==
    [mounted |-> FALSE, isLoggedIn |-> FALSE, interval |-> FALSE,
     stored |-> stored, today |-> today,
     password |-> << >>, error |-> "", loading |-> FALSE, call |-> << >>,
     currentPw |-> << >>, newPw |-> << >>, confirmPw |-> << >>,
     pwLoading |-> FALSE, pwToast |-> "", pwCalls |-> {},
     adminRows |-> adminRows, attempts |-> attempts, changes |-> changes,
     last |-> "load"]

\* the Dashboard is unmounted and the LoginForm mounted: the fields of both
\* start over; what SettingsModal waits for goes on without it
Detached(pwCalls) == { [c EXCEPT !.live = FALSE] : c \in pwCalls }

LoggedOut(h) ==
    [h EXCEPT !.stored = << >>, !.isLoggedIn = FALSE, !.interval = FALSE,
              !.password = << >>, !.error = "", !.loading = FALSE,
              !.currentPw = << >>, !.newPw = << >>, !.confirmPw = << >>,
              !.pwLoading = FALSE, !.pwCalls = Detached(@)]

\* what a browser that ran the program before holds under SESSION_KEY
StoredAtLoad ==
    { << >> } \cup { << StringifySession(DayText(day)) >> : day \in 0..1 }

\* the first effect of Home, a mutation: the date of the session is not read
sessionAtMountAnyDay(session, h) ==
    IF Truthy(Get(session, << "l", "o", "g", "g", "e", "d", "I", "n" >>))
    THEN [h EXCEPT !.isLoggedIn = TRUE, !.interval = TRUE, !.mounted = TRUE, !.last = "mount"]
    ELSE [h EXCEPT !.mounted = TRUE, !.last = "mount"]

\* the first effect of Home
sessionAtMount(session, h) ==
    IF Truthy(Get(session, << "l", "o", "g", "g", "e", "d", "I", "n" >>))
       /\ Get(session, << "d", "a", "t", "e" >>) = JString(DayText(h.today))
    THEN [h EXCEPT !.isLoggedIn = TRUE, !.interval = TRUE, !.mounted = TRUE, !.last = "mount"]
    ELSE IF Truthy(Get(session, << "l", "o", "g", "g", "e", "d", "I", "n" >>))
    THEN [h EXCEPT !.stored = << >>, !.mounted = TRUE, !.last = "mount"]
    ELSE [h EXCEPT !.mounted = TRUE, !.last = "mount"]

MountHome ==
    /\ home # << >> /\ ~home.mounted
    /\ home' = sessionAtMount(getStoredSession(home.stored), home)
    /\ UNCHANGED << dash, codec, planner, celebration, photoModal, patientTable >>

\* the page is loaded again: the stored session and the service stay, the
\* components start over and what they waited for is gone
ReloadPage ==
    /\ home # << >> /\ home.mounted
    /\ home' = [HomeLoaded(home.stored, home.today, home.adminRows, home.attempts,
                            home.changes)
                   EXCEPT !.last = "reload"]
    /\ UNCHANGED << dash, codec, planner, celebration, photoModal, patientTable >>

\* midnight (of toISOString's time zone) passes
NextDay ==
    /\ home # << >> /\ home.today < MaxDay
    /\ home' = [home EXCEPT !.today = @ + 1, !.last = "day"]
    /\ UNCHANGED << dash, codec, planner, celebration, photoModal, patientTable >>

\* the callback of setInterval, a mutation: the date is not compared
hourlyCheckIdle(session, h) == [h EXCEPT !.last = "checked"]

\* the callback of setInterval, and the cleanup of its effect once
\* isLoggedIn is false
hourlyCheck(session, h) ==
    IF Truthy(session) /\ Get(session, << "d", "a", "t", "e" >>) # JString(DayText(h.today))
    THEN [LoggedOut(h) EXCEPT !.last = "expired"]
    ELSE [h EXCEPT !.last = "checked"]

HourlyCheck ==
    /\ home # << >> /\ home.interval
    /\ home' = hourlyCheck(getStoredSession(home.stored), home)
    /\ UNCHANGED << dash, codec, planner, celebration, photoModal, patientTable >>

\* handleLogout, from the confirm dialog of the Dashboard
HandleLogout ==
    /\ home # << >> /\ home.mounted /\ home.isLoggedIn
    /\ home' = [LoggedOut(home) EXCEPT !.last = "logout"]
    /\ UNCHANGED << dash, codec, planner, celebration, photoModal, patientTable >>

\* onChange of the password input of LoginForm
TypePassword ==
    /\ home # << >> /\ home.mounted /\ ~home.isLoggedIn /\ ~home.loading
    /\ \E password \in Passwords :
          /\ password # home.password
          /\ home' = [home EXCEPT !.password = password, !.last = "type"]
    /\ UNCHANGED << dash, codec, planner, celebration, photoModal, patientTable >>

\* LoginForm.handleSubmit up to its await; the button is disabled while
\* loading and while the password is empty
HandleSubmit ==
    /\ home # << >> /\ home.mounted /\ ~home.isLoggedIn
    /\ ~home.loading /\ home.password # << >>
    /\ home.attempts < MaxAttempts
    /\ home' = [home EXCEPT !.error = "", !.loading = TRUE,
                            !.call = << [password |-> home.password] >>,
                            !.attempts = @ + 1, !.last = "submit"]
    /\ UNCHANGED << dash, codec, planner, celebration, photoModal, patientTable >>

\* how the select on admin_auth ends: a row, { error } or no row, a rejection
ReadOutcomes == {"row", "error", "reject"}

\* the row `.limit(1).single()` may answer with: the table is not ordered
FirstRows(h) == { h.adminRows[i] : i \in DOMAIN h.adminRows }

\* verifyPassword, a mutation: true whenever the select did not reject
AlwaysTrue(password, outcome, adminHash) == outcome # "reject"

\* verifyPassword(password) when it does not reject
verifyPassword(password, outcome, adminHash) ==
    IF outcome # "row" THEN FALSE ELSE BcryptCompare(password, adminHash)

WrongPassword == "Password salah. Silakan coba lagi."
NoConnection == "Gagal terhubung ke server. Periksa koneksi Anda."

\* handleLogin: saveSession(); setIsLoggedIn(true); the interval effect runs
handleLogin(h) ==
    [h EXCEPT !.stored = << StringifySession(DayText(h.today)) >>,
              !.isLoggedIn = TRUE, !.interval = TRUE]

\* the rest of LoginForm.handleSubmit, once verifyPassword settled
LoginSettled ==
    /\ home # << >> /\ home.call # << >>
    /\ \E outcome \in ReadOutcomes, row \in FirstRows(home) :
          home' =
             IF outcome = "reject"
             THEN [home EXCEPT !.call = << >>, !.loading = FALSE, !.error = NoConnection,
                               !.last = "rejected"]
             ELSE IF verifyPassword(home.call[1].password, outcome, row)
             THEN [handleLogin(home) EXCEPT !.call = << >>, !.loading = FALSE,
                                            !.password = << >>, !.last = "login"]
             ELSE [home EXCEPT !.call = << >>, !.loading = FALSE, !.error = WrongPassword,
                               !.last = "refused"]
    /\ UNCHANGED << dash, codec, planner, celebration, photoModal, patientTable >>

\* onChange of the three password inputs of SettingsModal
SettingsPws == { AdminPw, ShortPw, LongPw }

TypeSettings ==
    /\ home # << >> /\ home.mounted /\ home.isLoggedIn /\ ~home.pwLoading
    /\ \/ \E v \in SettingsPws :
             v # home.currentPw /\ home' = [home EXCEPT !.currentPw = v, !.last = "type"]
       \/ \E v \in SettingsPws :
             v # home.newPw /\ home' = [home EXCEPT !.newPw = v, !.last = "type"]
       \/ \E v \in SettingsPws :
             v # home.confirmPw /\ home' = [home EXCEPT !.confirmPw = v, !.last = "type"]
    /\ UNCHANGED << dash, codec, planner, celebration, photoModal, patientTable >>

\* toast.error and toast.success of handleChangePassword
PwMissing == "Masukkan password saat ini"
PwTooShort == "Password baru minimal 6 karakter"
PwMismatch == "Konfirmasi password tidak cocok"
PwWrong == "Password saat ini salah"
PwFailed == "Gagal mengubah password"
PwChanged == "Password berhasil diubah"

\* the checks of handleChangePassword, a mutation: the confirmation is not
\* compared
ChecksWithoutConfirm(currentPw, newPw, confirmPw) ==
    IF currentPw = << >> THEN PwMissing
    ELSE IF Len(newPw) < 6 THEN PwTooShort
    ELSE ""

\* the three checks handleChangePassword makes before setPwLoading(true):
\* the toast of the first that fails, or ""
PasswordChecks(currentPw, newPw, confirmPw) ==
    IF currentPw = << >> THEN PwMissing
    ELSE IF Len(newPw) < 6 THEN PwTooShort
    ELSE IF newPw # confirmPw THEN PwMismatch
    ELSE ""

\* handleChangePassword up to its first await; the button is disabled while
\* pwLoading and while one of the three fields is empty
HandleChangePassword ==
    /\ home # << >> /\ home.mounted /\ home.isLoggedIn
    /\ ~home.pwLoading
    /\ home.currentPw # << >> /\ home.newPw # << >> /\ home.confirmPw # << >>
    /\ home.attempts < MaxAttempts
    /\ home' =
          IF PasswordChecks(home.currentPw, home.newPw, home.confirmPw) # ""
          THEN [home EXCEPT !.pwToast = PasswordChecks(home.currentPw, home.newPw, home.confirmPw),
                            !.attempts = @ + 1, !.last = "invalid"]
          ELSE [home EXCEPT !.pwLoading = TRUE,
                            !.pwCalls = @ \cup { [id |-> home.attempts + 1, stage |-> "verify",
                                                  currentPw |-> home.currentPw,
                                                  newPw |-> home.newPw,
                                                  confirmPw |-> home.confirmPw,
                                                  live |-> TRUE] },
                            !.attempts = @ + 1, !.last = "change"]
    /\ UNCHANGED << dash, codec, planner, celebration, photoModal, patientTable >>

\* the catch and finally blocks of handleChangePassword for the call c; a
\* SettingsModal that was unmounted keeps no state
PwEnded(h, c, toast) ==
    IF c.live
    THEN [h EXCEPT !.pwCalls = @ \ {c}, !.pwLoading = FALSE, !.pwToast = toast]
    ELSE [h EXCEPT !.pwCalls = @ \ {c}, !.pwToast = toast]

\* `await verifyPassword(currentPw)` of handleChangePassword settles; if ok,
\* changePassword(newPw) is called
PwVerifySettled ==
    /\ home # << >>
    /\ \E c \in home.pwCalls, outcome \in ReadOutcomes, row \in FirstRows(home) :
          /\ c.stage = "verify"
          /\ home' =
                IF outcome = "reject"
                THEN [PwEnded(home, c, PwFailed) EXCEPT !.last = "pwRejected"]
                ELSE IF ~verifyPassword(c.currentPw, outcome, row)
                THEN [PwEnded(home, c, PwWrong) EXCEPT !.last = "pwRefused"]
                ELSE [home EXCEPT !.pwCalls = (@ \ {c}) \cup {[c EXCEPT !.stage = "change"]},
                                  !.changes = @ \cup {[call |-> c, row |-> row]},
                                  !.last = "pwVerified"]
    /\ UNCHANGED << dash, codec, planner, celebration, photoModal, patientTable >>

\* how changePassword(newPassword) ends: the row its select answered was
\* updated; the select answered no row and a row was inserted; the update
\* or insert answered { error }; a rejection
ChangeOutcomes == {"updated", "inserted", "error", "reject"}

\* the rows of admin_auth after changePassword(newPassword)
changePassword(rows, newPassword, outcome, i) ==
    CASE outcome = "updated" -> [rows EXCEPT ![i] = BcryptHash(newPassword)]
      [] outcome = "inserted" -> Append(rows, BcryptHash(newPassword))
      [] OTHER -> rows

\* the rest of handleChangePassword after a changePassword that resolved
PwSucceeded(h, c) ==
    IF c.live
    THEN [h EXCEPT !.pwCalls = @ \ {c}, !.pwLoading = FALSE, !.pwToast = PwChanged,
                   !.currentPw = << >>, !.newPw = << >>, !.confirmPw = << >>]
    ELSE [h EXCEPT !.pwCalls = @ \ {c}, !.pwToast = PwChanged]

\* `await changePassword(newPw)` settles
PwChangeSettled ==
    /\ home # << >>
    /\ \E c \in home.pwCalls, outcome \in ChangeOutcomes, i \in DOMAIN home.adminRows :
          /\ c.stage = "change"
          /\ home' =
                IF outcome = "reject"
                THEN [PwEnded(home, c, PwFailed) EXCEPT !.last = "pwRejected"]
                ELSE [PwSucceeded(home, c) EXCEPT
                         !.adminRows = changePassword(home.adminRows, c.newPw, outcome, i),
                         !.last = "pwChanged"]
    /\ UNCHANGED << dash, codec, planner, celebration, photoModal, patientTable >>

InitHome ==
    /\ InitDash /\ remotePatients[1] = P1Modern
    /\ CodecIdle /\ PlannerIdle /\ CelebrationIdle /\ PhotoModalIdle /\ TableIdle
    /\ home \in { HomeLoaded(stored, 1, << BcryptHash(AdminPw) >>, 0, {}) :
                      stored \in StoredAtLoad }

\* Home and LoginForm
NextSession ==
    \/ MountHome
    \/ ReloadPage
    \/ NextDay
    \/ HourlyCheck
    \/ HandleLogout
    \/ TypePassword
    \/ HandleSubmit
    \/ LoginSettled

\* Home, LoginForm and the password change of SettingsModal
NextHome ==
    \/ MountHome
    \/ ReloadPage
    \/ NextDay
    \/ HourlyCheck
    \/ HandleLogout
    \/ TypePassword
    \/ HandleSubmit
    \/ LoginSettled
    \/ TypeSettings
    \/ HandleChangePassword
    \/ PwVerifySettled
    \/ PwChangeSettled

SpecHome == InitHome /\ [][NextHome]_vars

\* the session saveSession() stores on a day
SessionOf(day) == << StringifySession(DayText(day)) >>

\* C22 as stated: the dashboard is shown only while a session of the current
\* day is stored
C22_ShownOnlyForToday ==
    home.isLoggedIn => home.stored = SessionOf(home.today)

\* C22: the dashboard is shown only while a session is stored, dated today or
\* (until the next hourly check) on an earlier day; on mount the user is
\* logged in if and only if the stored session is today's; a stored session
\* of another day is cleared by the mount and the login form is shown; after
\* logout no session is stored and the login form is shown
C22_SessionGate ==
    /\ [](home.isLoggedIn => \E day \in 0..home.today : home.stored = SessionOf(day))
    /\ [](home.last = "logout" => home.stored = << >> /\ ~home.isLoggedIn)
    /\ [][MountHome =>
            /\ home'.isLoggedIn <=> home.stored = SessionOf(home.today)
            /\ home.stored \notin {<< >>, SessionOf(home.today)} =>
                  home'.stored = << >> /\ ~home'.isLoggedIn
            /\ home.stored = << >> => home'.stored = << >>]_vars

\* a login on the second day stored a session, the page was loaded again and
\* the mount found the session of the day
C22_Witness ==
    /\ home.last = "mount" /\ home.isLoggedIn
    /\ home.today = 2 /\ home.attempts = 1
    /\ home.stored = SessionOf(2)

\* Home with its interval: a timer that is armed fires again and again
SpecHomeLive == InitHome /\ [][NextSession]_vars /\ WF_vars(HourlyCheck)

\* C23: while the user is logged in and the stored session is not dated
\* today, an hourly check clears the stored session and logs the user out;
\* so after a day rollover the user is eventually logged out; and the
\* interval is armed only while the user is logged in
C23_RolloverLogsOut ==
    /\ [][(HourlyCheck /\ home.isLoggedIn /\ home.stored # SessionOf(home.today)) =>
             (home'.stored = << >> /\ ~home'.isLoggedIn /\ ~home'.interval)]_vars
    /\ (home.isLoggedIn /\ home.stored # SessionOf(home.today)) ~> ~home.isLoggedIn
    /\ [](home.interval => home.isLoggedIn)

\* the hourly check found the session of the first day on the second day
C23_Witness ==
    /\ home.last = "expired" /\ home.today = 2
    /\ ~home.isLoggedIn /\ ~home.interval /\ home.stored = << >>

\* C25: a session comes to be stored only by a step that settles a login
\* whose password matches the stored hash, read from a row that could be
\* read; verifyPassword answers false when the row cannot be read; after a
\* refused or failed login the user is logged out and no session is stored
C25_SessionOnlyAfterCheck ==
    /\ [][(home'.stored # home.stored /\ home'.stored # << >>) =>
             /\ home.call # << >>
             /\ \E row \in FirstRows(home) : BcryptCompare(home.call[1].password, row)
             /\ home'.last = "login"
             /\ home'.stored = SessionOf(home.today)]_vars
    /\ [][(~home.isLoggedIn /\ home'.isLoggedIn /\ home.mounted) =>
             /\ home.call # << >>
             /\ \E row \in FirstRows(home) : BcryptCompare(home.call[1].password, row)]_vars
    /\ [](\A password \in Passwords, row \in FirstRows(home) :
             ~verifyPassword(password, "error", row))
    /\ [](home.last \in {"refused", "rejected"} =>
             (~home.isLoggedIn /\ home.stored = << >> /\ ~home.loading))

\* a wrong password was refused, then the right one logged the user in
C25_Witness ==
    /\ home.last = "login" /\ home.attempts = 2
    /\ home.error = "" /\ home.isLoggedIn
    /\ home.stored = SessionOf(home.today)

\* the rows of admin_auth differ from rows in one row, old or new, that
\* holds the hash of newPassword
ChangedTo(rows, after, newPassword) ==
    \/ after = Append(rows, BcryptHash(newPassword))
    \/ \E i \in DOMAIN rows : after = [rows EXCEPT ![i] = BcryptHash(newPassword)]

---------------------------------------------------------------------------
(* src/components/department-card.tsx: a drag over the rows of a card that *)
(* is rendered with a searchQuery                                          *)
(*                                                                         *)
(* here `patientTable` holds, next to the rows of the table and the drag,  *)
(* the card's department.patients, its searchQuery prop, and the           *)
(* department that handleReorderPatients closed over.                      *)

\* the most requirements of a card that is dragged over
MaxCardRows == 3

\* the requirements of the card, by id
CardRows ==
    { [id |-> "A", requirement |-> << "S", "c", "a" >>],
      [id |-> "B", requirement |-> << "s", "c", "r" >>],
      [id |-> "C", requirement |-> << "T", "u" >>],
      [id |-> "D", requirement |-> << "c", "r" >>] }

CardLists ==
    { s \in UNION { [1..k -> CardRows] : k \in 1..MaxCardRows } :
        \A i, j \in DOMAIN s : i # j => s[i].id # s[j].id }

\* the searchQuery prop of the card; "" when the parent passes none
SearchQueries == { << >>, << " " >>, << "s", "c" >>, << "S", "C", " " >>, << "c", "r" >>, << "x" >> }

\* String.prototype.toLowerCase, on the letters of the model
ToLowerCase(s) ==
    [i \in DOMAIN s |-> CASE s[i] = "S" -> "s"
                          [] s[i] = "C" -> "c"
                          [] s[i] = "T" -> "t"
                          [] OTHER -> s[i]]

\* String.prototype.includes
Includes(s, q) == \E i \in 1..(Len(s) + 1) : i + Len(q) - 1 <= Len(s) /\ SubSeq(s, i, i + Len(q) - 1) = q

RECURSIVE Filter(_, _)
Filter(patients, q) ==
    IF patients = << >> THEN << >>
    ELSE IF Includes(ToLowerCase(Head(patients).requirement), q)
         THEN << Head(patients) >> \o Filter(Tail(patients), q)
         ELSE Filter(Tail(patients), q)

\* const q = searchQuery.trim().toLowerCase(); filterPatients(patients)
filterPatients(patients, searchQuery) ==
    IF ToLowerCase(Trim(searchQuery)) # << >>
    THEN Filter(patients, ToLowerCase(Trim(searchQuery)))
    ELSE patients

\* a row of the rendered table is being dragged
InitCardDrag ==
    /\ InitDash /\ remotePatients[1] = P1Modern
    /\ CodecIdle /\ PlannerIdle /\ CelebrationIdle /\ PhotoModalIdle /\ HomeIdle
    /\ \E department \in CardLists, searchQuery \in SearchQueries :
       \E active \in DOMAIN filterPatients(department, searchQuery),
          over \in DOMAIN filterPatients(department, searchQuery) \cup {0} :
          patientTable = [department |-> department, searchQuery |-> searchQuery,
                          patients |-> filterPatients(department, searchQuery),
                          active |-> filterPatients(department, searchQuery)[active].id,
                          over |-> IF over = 0 THEN Null
                                   ELSE filterPatients(department, searchQuery)[over].id,
                          stage |-> "dragging", onReorder |-> << >>, writes |-> {},
                          closure |-> department]

\* handleReorderPatients(newList) of a card without sub-departments, up to
\* its await, and the render that follows onUpdate(updated)
handleReorderPatients(t, newList) ==
    [t EXCEPT !.department = newList,
              !.patients = filterPatients(newList, t.searchQuery),
              !.closure = t.department,
              !.onReorder = << newList >>,
              !.writes = { << c.arg.id, c.idx >> : c \in PositionWrites(1, Null, newList, 1) },
              !.stage = "saving"]

\* onDragEnd={handleDragEnd} of the table, whose onReorder is
\* (newList) => handleReorderPatients(newList)
CardDragEnd ==
    /\ patientTable.stage = "dragging"
    /\ LET reordered == handleDragEnd(patientTable.patients, patientTable.active, patientTable.over)
       IN patientTable' = IF reordered = << >>
                          THEN [patientTable EXCEPT !.stage = "dropped"]
                          ELSE handleReorderPatients(patientTable, reordered[1])
    /\ UNCHANGED << dash, codec, planner, celebration, photoModal, home >>

\* the Promise.all of the position writes settles; catch: onUpdate(department)
ReorderSettled ==
    /\ patientTable.stage = "saving"
    /\ \E ok \in BOOLEAN :
          patientTable' =
              IF ok THEN [patientTable EXCEPT !.stage = "dropped", !.writes = {}]
              ELSE [patientTable EXCEPT
                      !.stage = "dropped", !.writes = {},
                      !.department = patientTable.closure,
                      !.patients = filterPatients(patientTable.closure, patientTable.searchQuery)]
    /\ UNCHANGED << dash, codec, planner, celebration, photoModal, home >>

NextCardDrag ==
    \/ CardDragEnd
    \/ ReorderSettled

SpecCardDrag == InitCardDrag /\ [][NextCardDrag]_vars

RequirementIds(patients) == { patients[i].id : i \in DOMAIN patients }

---------------------------------------------------------------------------
(* src/components/department-card.tsx: calcWeightedProgress on long lists  *)
(*                                                                         *)
(* here `celebration` holds the statuses of allPatients of one render and  *)
(* the weightedProgress that the render computed from them.                *)

\* the most requirements of a department whose progress is computed
MaxProgressReqs == 41

\* the statuses of allPatients: every list of up to MaxReqs requirements,
\* and the lists of up to MaxProgressReqs requirements of which the first
\* done are "Selesai" and the others share one status
ProgressLists ==
    StatusLists \cup
    { [i \in 1..n |-> IF i <= done THEN "Selesai" ELSE STATUS_OPTIONS[o]] :
        n \in 1..MaxProgressReqs, done \in 0..MaxProgressReqs, o \in DOMAIN STATUS_OPTIONS }

InitProgress ==
    /\ InitDash /\ remotePatients[1] = P1Modern
    /\ CodecIdle /\ PlannerIdle /\ PhotoModalIdle /\ TableIdle /\ HomeIdle
    /\ \E statuses \in ProgressLists :
          celebration = [allPatients |-> statuses, stage |-> "props", weightedProgress |-> Null]

\* const weightedProgress = calcWeightedProgress(allPatients)
RenderProgress ==
    /\ celebration.stage = "props"
    /\ celebration' = [celebration EXCEPT
                         !.stage = "rendered",
                         !.weightedProgress = calcWeightedProgress(celebration.allPatients)]
    /\ UNCHANGED << dash, codec, planner, photoModal, patientTable, home >>

SpecProgress == InitProgress /\ [][RenderProgress]_vars

AllSelesai(statuses) == \A i \in DOMAIN statuses : statuses[i] = "Selesai"

\* C30: the progress of an empty list is 0; the progress of any other list
\* is 100 * (sum of the status weights) / (count * 5) rounded to the nearest
\* whole number, halves upward, lies in 0..100, and is 100 exactly if every
\* requirement of the list is "Selesai"
C30_FullOnlyWhenAllDone ==
    celebration.stage = "rendered" =>
        LET statuses == celebration.allPatients
            progress == celebration.weightedProgress
        IN IF Len(statuses) = 0 THEN progress = 0
           ELSE /\ progress = Round(SumWeights(statuses) * 100, Len(statuses) * 5)
                /\ progress \in 0..100
                /\ progress = 100 <=> AllSelesai(statuses)

=======================================================================
